---- MODULE Spec2Model ----
(***************************************************************************)
(* Persistency analyzer: the carrier analysis functions of                 *)
(* src/app/api/analyze/route.ts and the scoped request handler of          *)
(* src/unnamed/part_007, as state machines.                                *)
(*                                                                         *)
(* Time is counted in half days of the server's local clock: the local     *)
(* midnight that starts day D is the instant 2*D, D being the number of    *)
(* days since 1970-01-01.  A Date is a record [ok, t]: ok = FALSE is       *)
(* JavaScript's Invalid Date (time value NaN).                             *)
(***************************************************************************)
EXTENDS Integers, Sequences, FiniteSets, TLC

VARIABLES db, ui, env, probe, upload, analysis, req, pc, scopedPolicies, results, lapsePolicies, response

vars == <<db, ui, env, probe, upload, analysis, req, pc, scopedPolicies, results, lapsePolicies, response>>

(***************************************************************************)
(* Bounds of the model.                                                    *)
(***************************************************************************)
MaxRows == 3
MaxRequestRows == 2

(***************************************************************************)
(* JavaScript Date arithmetic.                                             *)
(***************************************************************************)
DaysFromCivil(y, m, d) ==
    LET yy  == IF m <= 2 THEN y - 1 ELSE y
        era == yy \div 400
        yoe == yy - era * 400
        mp  == IF m > 2 THEN m - 3 ELSE m + 9
        doy == (153 * mp + 2) \div 5 + d - 1
        doe == yoe * 365 + yoe \div 4 - yoe \div 100 + doy
    IN  era * 146097 + doe - 719468

CivilFromDays(z) ==
    LET zz  == z + 719468
        era == zz \div 146097
        doe == zz - era * 146097
        yoe == (doe - doe \div 1460 + doe \div 36524 - doe \div 146096) \div 365
        doy == doe - (365 * yoe + yoe \div 4 - yoe \div 100)
        mp  == (5 * doy + 2) \div 153
        d   == doy - (153 * mp + 2) \div 5 + 1
        m   == IF mp < 10 THEN mp + 3 ELSE mp - 9
        y   == yoe + era * 400 + (IF m <= 2 THEN 1 ELSE 0)
    IN  [y |-> y, m |-> m, d |-> d]

InvalidDate == [ok |-> FALSE, t |-> 0]

\* new Date(year, monthIndex, day): local midnight, month and day overflow carried
NewDate(year, monthIndex, day) ==
    [ok |-> TRUE,
     t  |-> 2 * (DaysFromCivil(year + monthIndex \div 12, (monthIndex % 12) + 1, 1) + day - 1)]

\* an instant given as UTC midnight of a day, read on the local clock
UTCMidnight(days, tz) == [ok |-> TRUE, t |-> 2 * days + tz]

getFullYear(date) == CivilFromDays(date.t \div 2).y
getMonth(date)    == CivilFromDays(date.t \div 2).m - 1
getDate(date)     == CivilFromDays(date.t \div 2).d

\* Math.round(x * 100) / 100 of the percentage num / den * 100, in hundredths
RoundPct(num, den) == (2 * 10000 * num + den) \div (2 * den)

(***************************************************************************)
(* Spreadsheet cells.  A date cell is the text of one calendar day in one  *)
(* encoding: "mdy" is MM/DD/YYYY, "ymd" is YYYY-MM-DD, "serial" the        *)
(* spreadsheet day number, "blank" the empty string, "missing" an absent   *)
(* column (undefined) and "na" the text N/A.                               *)
(***************************************************************************)
Cell(fmt, y, m, d) == [fmt |-> fmt, y |-> y, m |-> m, d |-> d]
BlankCell   == Cell("blank", 0, 0, 0)
MissingCell == Cell("missing", 0, 0, 0)
NACell      == Cell("na", 0, 0, 0)

SerialEpoch == DaysFromCivil(1899, 12, 30)
SerialOf(cell) == DaysFromCivil(cell.y, cell.m, cell.d) - SerialEpoch

\* the outcome of a parser: a Date, an exception, or null
Parsed(date) == [kind |-> "date", date |-> date]
Thrown       == [kind |-> "throw", date |-> InvalidDate]
Null         == [kind |-> "null", date |-> InvalidDate]

parseAMAMDate(cell) ==
    CASE cell.fmt = "missing" -> Thrown
      [] cell.fmt = "mdy"     -> Parsed(NewDate(cell.y, cell.m - 1, cell.d))
      [] OTHER                -> Parsed(InvalidDate)

parseCombinedDate(cell) ==
    CASE cell.fmt = "missing" -> Thrown
      [] cell.fmt = "ymd"     -> Parsed(NewDate(cell.y, cell.m - 1, cell.d))
      [] OTHER                -> Parsed(InvalidDate)

parseAflacDate(cell, tz) ==
    CASE cell.fmt \in {"missing", "blank"} -> Null
      [] cell.fmt = "serial" ->
            IF SerialOf(cell) > 59
            THEN Parsed(UTCMidnight(SerialEpoch + SerialOf(cell), tz))
            ELSE Null
      [] cell.fmt = "ymd" -> Parsed(UTCMidnight(DaysFromCivil(cell.y, cell.m, cell.d), tz))
      [] cell.fmt = "mdy" -> Parsed(NewDate(cell.y, cell.m - 1, cell.d))
      [] OTHER -> Null

parseAetnaDateXLSX(cell, tz) ==
    CASE cell.fmt \in {"missing", "blank"} -> Null
      [] cell.fmt = "serial" ->
            IF SerialOf(cell) > 59
            THEN Parsed(UTCMidnight(SerialEpoch + SerialOf(cell), tz))
            ELSE Null
      [] cell.fmt = "ymd" -> Parsed(UTCMidnight(DaysFromCivil(cell.y, cell.m, cell.d), tz))
      [] cell.fmt = "mdy" -> Parsed(NewDate(cell.y, cell.m - 1, cell.d))
      [] OTHER -> Null

(***************************************************************************)
(* Text cells.  Undefined is an absent column; trim and the substring      *)
(* tests are tabulated over the texts the model feeds in.                  *)
(***************************************************************************)
Undefined == "<undefined>"

OrEmpty(s) == IF s = Undefined THEN "" ELSE s

trim(s) ==
    CASE s = "Active "         -> "Active"
      [] s = " "               -> ""
      [] s = " CONTRACT ACTIVE" -> "CONTRACT ACTIVE"
      [] OTHER                 -> s

\* disp.includes('death') on the lower-cased STATUSDISPLAYTEXT
IncludesDeath(disp) == disp \in {"Death Claim", "Terminated - Death"}
\* disp.includes('lapse') || disp.includes('requested termination')
IncludesLapse(disp) == disp \in {"Lapse Pending", "Insured Requested Termination"}

(***************************************************************************)
(* Classifiers.                                                            *)
(***************************************************************************)
monthsDifference(date1, date2) ==
    IF date1.ok /\ date2.ok
    THEN [nan |-> FALSE,
          n   |-> (getFullYear(date2) - getFullYear(date1)) * 12
                  + (getMonth(date2) - getMonth(date1))]
    ELSE [nan |-> TRUE, n |-> 0]

AMAMPositiveStatuses == {"Active", "DeathClaim"}
AMAMNegativeStatuses ==
    {"Declined", "Withdrawn", "Incomplete", "InfNotTaken", "Terminated", "NotTaken",
     "RPU", "Act-Ret Item", "Pending", "IssNotPaid", "NeedReqmnt"}

\* classifyAMAMPolicy without the try/catch around the date arithmetic
classifyAMAMPolicyUncaught(status, policyDate, paidToDate) ==
    IF status = "DeathClaim"
    THEN LET policyDateObj == parseAMAMDate(policyDate)
             paidToDateObj == parseAMAMDate(paidToDate)
             monthsDiff    == monthsDifference(policyDateObj.date, paidToDateObj.date)
         IN  IF policyDateObj.kind = "throw" \/ paidToDateObj.kind = "throw"
             THEN "throw"
             ELSE IF ~monthsDiff.nan /\ monthsDiff.n <= 24 THEN "negative" ELSE "positive"
    ELSE IF status \in AMAMPositiveStatuses THEN "positive"
    ELSE "negative"

classifyAMAMPolicy(status, policyDate, paidToDate) ==
    IF status = "DeathClaim"
    THEN LET policyDateObj == parseAMAMDate(policyDate)
             paidToDateObj == parseAMAMDate(paidToDate)
             monthsDiff    == monthsDifference(policyDateObj.date, paidToDateObj.date)
         IN  IF policyDateObj.kind = "throw" \/ paidToDateObj.kind = "throw"
             THEN "negative"
             ELSE IF ~monthsDiff.nan /\ monthsDiff.n <= 24 THEN "negative" ELSE "positive"
    ELSE IF status \in AMAMPositiveStatuses THEN "positive"
    ELSE IF status \in AMAMNegativeStatuses THEN "negative"
    ELSE "negative"

aflacMonthsDiff(a, b) ==
    (getFullYear(b) - getFullYear(a)) * 12 + (getMonth(b) - getMonth(a))

classifyAflacPolicy(policy, tz) ==
    IF IncludesDeath(OrEmpty(policy.STATUSDISPLAYTEXT))
    THEN LET orig == parseAflacDate(policy.ORIGEFFDATE, tz)
             term == parseAflacDate(policy.TERMDATE, tz)
         IN  IF orig.kind = "date" /\ term.kind = "date"
                /\ aflacMonthsDiff(orig.date, term.date) > 24
             THEN "positive"
             ELSE "negative"
    ELSE IF trim(OrEmpty(policy.STATUSCATEGORY)) = "Active" THEN "positive"
    ELSE "negative"

aetnaMonthsDiff(a, b) ==
    (getFullYear(b) - getFullYear(a)) * 12 + (getMonth(b) - getMonth(a))

classifyAetnaPolicy(policy, tz) ==
    IF IncludesDeath(OrEmpty(policy.STATUSDISPLAYTEXT))
    THEN LET orig == parseAetnaDateXLSX(policy.ORIGEFFDATE, tz)
             term == parseAetnaDateXLSX(policy.TERMDATE, tz)
         IN  IF orig.kind = "date" /\ term.kind = "date"
                /\ aetnaMonthsDiff(orig.date, term.date) > 24
             THEN "positive"
             ELSE "negative"
    ELSE IF trim(OrEmpty(policy.STATUSCATEGORY)) = "Active" THEN "positive"
    ELSE "negative"

RNANegativeStatuses ==
    {"CON TERM NT NO PAY", "CON TERM WITHDRAWN", "CON TERM INCOMPLETE", "CON TERM LAPSED"}
RNAPositiveStatuses ==
    {"CONTRACT ACTIVE", "CON SUS DEATH PENDING", "CON TERM DEATH CLAIM",
     "CON ACT REINSTATEMENT", "CON TERM MATURED"}

classifyRoyalNeighborsStatus(status) ==
    LET s == trim(OrEmpty(status))
    IN  IF s \in RNAPositiveStatuses THEN "positive"
        ELSE IF s \in RNANegativeStatuses THEN "negative"
        ELSE "neutral"

CombinedPositiveStatuses == {"In-Force", "Issued"}
CombinedNegativeStatuses == {"Terminated", "Lapse-Pending"}

classifyCombinedPolicy(status) ==
    IF status \in CombinedPositiveStatuses THEN "positive"
    ELSE IF status \in CombinedNegativeStatuses THEN "negative"
    ELSE "negative"

(***************************************************************************)
(* Date parsers of route.ts that the window filters use.                   *)
(***************************************************************************)
\* new Date(text) on a bare number reads it as a year
parseRoyalNeighborsDate(cell) ==
    CASE cell.fmt \in {"missing", "blank"} -> Thrown
      [] cell.fmt \in {"ymd", "mdy"}       -> Parsed(NewDate(cell.y, cell.m - 1, cell.d))
      [] cell.fmt = "na"                   -> Parsed(InvalidDate)
      [] OTHER                             -> Parsed(NewDate(SerialOf(cell), 0, 1))

parseAetnaDate(cell) ==
    CASE cell.fmt \in {"missing", "blank"} -> Thrown
      [] cell.fmt \in {"ymd", "mdy"}       -> Parsed(NewDate(cell.y, cell.m - 1, cell.d))
      [] cell.fmt = "na"                   -> Thrown
      [] OTHER                             -> Parsed(NewDate(SerialOf(cell), 0, 1))

parseAflacDateRoute(cell) ==
    CASE cell.fmt \in {"missing", "blank"} -> Thrown
      [] cell.fmt \in {"ymd", "mdy"}       -> Parsed(NewDate(cell.y, cell.m - 1, cell.d))
      [] cell.fmt = "na"                   -> Thrown
      [] OTHER                             -> Parsed(NewDate(SerialOf(cell), 0, 1))

(***************************************************************************)
(* Time windows and aggregation (route.ts).                                *)
(***************************************************************************)
Ranges == {"3", "6", "9", "All"}

\* parseInt(range)
MonthsBack(range) == CASE range = "3" -> 3 [] range = "6" -> 6 [] range = "9" -> 9

Count(seq, Test(_)) == Cardinality({i \in 1..Len(seq) : Test(seq[i])})

\* new Date(now.getFullYear(), now.getMonth() - monthsBack, now.getDate())
cutoffDate(now, monthsBack) ==
    NewDate(getFullYear(now), getMonth(now) - monthsBack, getDate(now))

\* Percentage with Math.floor in place of Math.round
PercentageTruncated(count, total) == IF total > 0 THEN (10000 * count) \div total ELSE 0

\* Percentage without the total > 0 guard: 0 / 0 is NaN, written -1
PercentageUnguarded(count, total) == IF total > 0 THEN RoundPct(count, total) ELSE -1

\* total > 0 ? Math.round((count / total) * 100 * 100) / 100 : 0, in hundredths
Percentage(count, total) == IF total > 0 THEN RoundPct(count, total) ELSE 0

AnalysisResult(positiveCount, negativeCount) ==
    [positivePercentage |-> Percentage(positiveCount, positiveCount + negativeCount),
     positiveCount      |-> positiveCount,
     negativePercentage |-> Percentage(negativeCount, positiveCount + negativeCount),
     negativeCount      |-> negativeCount]

CarrierResult(carrier, timeRanges, statusBreakdowns, totalPolicies) ==
    [carrier          |-> carrier,
     timeRanges       |-> timeRanges,
     statusBreakdowns |-> statusBreakdowns,
     totalPolicies    |-> totalPolicies,
     persistencyRate  |-> timeRanges["All"].positivePercentage]

(* American Amicable *)
\* filterAMAMPoliciesByTimeRange testing !(policyDate < cutoffDate): an Invalid Date passes
filterAMAMPoliciesKeepingInvalid(policies, monthsBack, now) ==
    SelectSeq(policies,
        LAMBDA policy :
            LET policyDate == parseAMAMDate(policy.PolicyDate)
            IN  /\ policyDate.kind = "date"
                /\ (~policyDate.date.ok \/ policyDate.date.t >= cutoffDate(now, monthsBack).t))

filterAMAMPoliciesByTimeRange(policies, monthsBack, now) ==
    SelectSeq(policies,
        LAMBDA policy :
            LET policyDate == parseAMAMDate(policy.PolicyDate)
            IN  /\ policyDate.kind = "date"
                /\ policyDate.date.ok
                /\ policyDate.date.t >= cutoffDate(now, monthsBack).t)

analyzeAMAMTimeRange(policies) ==
    LET positiveCount ==
            Count(policies, LAMBDA policy :
                classifyAMAMPolicy(policy.Status, policy.PolicyDate, policy.PaidtoDate) = "positive")
        negativeCount == Len(policies) - positiveCount
    IN  AnalysisResult(positiveCount, negativeCount)

getAMAMStatusBreakdown(policies) ==
    [status \in {policies[i].Status : i \in 1..Len(policies)} |->
        LET count == Count(policies, LAMBDA policy : policy.Status = status)
        IN  [count |-> count, percentage |-> Percentage(count, Len(policies))]]

AMAMWindows(policies, now) ==
    [range \in Ranges |->
        IF range = "All" THEN policies
        ELSE filterAMAMPoliciesByTimeRange(policies, MonthsBack(range), now)]

analyzeAmericanAmicable(policies, now) ==
    CarrierResult("American Amicable",
        [range \in Ranges |-> analyzeAMAMTimeRange(AMAMWindows(policies, now)[range])],
        [range \in Ranges |-> getAMAMStatusBreakdown(AMAMWindows(policies, now)[range])],
        Len(policies))

(* Combined Insurance *)
filterCombinedPoliciesByTimeRange(policies, monthsBack, now) ==
    SelectSeq(policies,
        LAMBDA policy :
            LET effectiveDate == parseCombinedDate(policy.effective_date)
            IN  /\ effectiveDate.kind = "date"
                /\ effectiveDate.date.ok
                /\ effectiveDate.date.t >= cutoffDate(now, monthsBack).t)

analyzeCombinedTimeRange(policies) ==
    LET positiveCount ==
            Count(policies, LAMBDA policy : classifyCombinedPolicy(policy.status) = "positive")
        negativeCount == Len(policies) - positiveCount
    IN  AnalysisResult(positiveCount, negativeCount)

getCombinedStatusBreakdown(policies) ==
    [status \in {policies[i].status : i \in 1..Len(policies)} |->
        LET count == Count(policies, LAMBDA policy : policy.status = status)
        IN  [count |-> count, percentage |-> Percentage(count, Len(policies))]]

CombinedWindows(policies, now) ==
    [range \in Ranges |->
        IF range = "All" THEN policies
        ELSE filterCombinedPoliciesByTimeRange(policies, MonthsBack(range), now)]

analyzeCombined(policies, now) ==
    CarrierResult("Combined Insurance",
        [range \in Ranges |-> analyzeCombinedTimeRange(CombinedWindows(policies, now)[range])],
        [range \in Ranges |-> getCombinedStatusBreakdown(CombinedWindows(policies, now)[range])],
        Len(policies))

(* Royal Neighbors of America *)
TopStatuses == 7

RNAStatus(policy) == trim(OrEmpty(policy.CurrentContractStatusReason1))

\* the keys of `counts`, in the order the loop inserts them
RECURSIVE RNAKeys(_)
RNAKeys(policies) ==
    IF policies = <<>> THEN <<>>
    ELSE LET before == RNAKeys(SubSeq(policies, 1, Len(policies) - 1))
             status == RNAStatus(policies[Len(policies)])
         IN  IF status = "" \/ \E i \in 1..Len(before) : before[i] = status
             THEN before
             ELSE Append(before, status)

\* Array.prototype.sort((a, b) => b[1] - a[1]): stable, by descending count
RECURSIVE SortByCountDesc(_)
SortByCountDesc(entries) ==
    IF entries = <<>> THEN <<>>
    ELSE LET sorted == SortByCountDesc(SubSeq(entries, 1, Len(entries) - 1))
             e      == entries[Len(entries)]
             k      == Cardinality({i \in 1..Len(sorted) : sorted[i].count >= e.count})
         IN  SubSeq(sorted, 1, k) \o <<e>> \o SubSeq(sorted, k + 1, Len(sorted))

RECURSIVE SumCounts(_)
SumCounts(entries) ==
    IF entries = <<>> THEN 0 ELSE entries[1].count + SumCounts(Tail(entries))

getRoyalNeighborsStatusBreakdownLimited(policies) ==
    LET keys    == RNAKeys(policies)
        counts  == [i \in 1..Len(keys) |->
                       [status |-> keys[i],
                        count  |-> Count(policies, LAMBDA p : RNAStatus(p) = keys[i])]]
        entries == SortByCountDesc(counts)
        top     == SubSeq(entries, 1, IF Len(entries) < TopStatuses THEN Len(entries) ELSE TopStatuses)
        rest    == SubSeq(entries, TopStatuses + 1, Len(entries))
        total   == SumCounts(entries)
        otherCount == SumCounts(rest)
        labels  == {top[i].status : i \in 1..Len(top)}
                       \cup (IF otherCount > 0 THEN {"Other"} ELSE {})
    IN  [status \in labels |->
            IF status = "Other" /\ otherCount > 0
            THEN [count |-> otherCount, percentage |-> Percentage(otherCount, total)]
            ELSE LET i == CHOOSE j \in 1..Len(top) : top[j].status = status
                 IN  [count |-> top[i].count, percentage |-> Percentage(top[i].count, total)]]

\* analyzeRoyalNeighborsTimeRange with a bare else, as in analyzeAMAMTimeRange
analyzeRoyalNeighborsTimeRangeElseNegative(policies) ==
    LET positiveCount ==
            Count(policies, LAMBDA p :
                classifyRoyalNeighborsStatus(p.CurrentContractStatusReason1) = "positive")
    IN  AnalysisResult(positiveCount, Len(policies) - positiveCount)

analyzeRoyalNeighborsTimeRange(policies) ==
    LET positiveCount ==
            Count(policies, LAMBDA p :
                classifyRoyalNeighborsStatus(p.CurrentContractStatusReason1) = "positive")
        negativeCount ==
            Count(policies, LAMBDA p :
                classifyRoyalNeighborsStatus(p.CurrentContractStatusReason1) = "negative")
    IN  AnalysisResult(positiveCount, negativeCount)

filterRoyalNeighborsByRange(policies, monthsBack, now) ==
    SelectSeq(policies,
        LAMBDA p :
            LET d == parseRoyalNeighborsDate(p.ActivationDate1)
            IN  /\ d.kind = "date"
                /\ d.date.ok
                /\ d.date.t >= cutoffDate(now, monthsBack).t)

RNAWindows(policies, now) ==
    [range \in Ranges |->
        IF range = "All" THEN policies
        ELSE filterRoyalNeighborsByRange(policies, MonthsBack(range), now)]

analyzeRoyalNeighbors(policies, now) ==
    CarrierResult("Royal Neighbors of America",
        [range \in Ranges |-> analyzeRoyalNeighborsTimeRange(RNAWindows(policies, now)[range])],
        [range \in Ranges |-> getRoyalNeighborsStatusBreakdownLimited(RNAWindows(policies, now)[range])],
        Len(policies))

(* Aetna and Aflac: one pass over the rows *)
\* policy.STATUSCATEGORY?.trim()
OptionalTrim(s) == IF s = Undefined THEN Undefined ELSE trim(s)

\* the switch on statusCategory
persistencyImpact(statusCategory) ==
    CASE statusCategory = "Active" -> "positive"
      [] statusCategory \in {"Withdrawn", "Lapsed", "Terminated", "Closed"} -> "negative"
      [] OTHER -> "neutral"

\* Math.floor((currentDate - issueDate) / (1000 * 60 * 60 * 24 * 30)), 30 days = 60 half days
monthsSinceIssue(currentDate, issueDate) == (currentDate.t - issueDate.t) \div 60

\* WithinRange with rangeMonths = parseInt(range): NaN for 'All', never within
WithinRangeParseIntOnly(months, range) == range # "All" /\ months <= MonthsBack(range)

\* const rangeMonths = range === 'All' ? Infinity : parseInt(range); monthsSinceIssue <= rangeMonths
WithinRange(months, range) == range = "All" \/ months <= MonthsBack(range)

\* the row reaches the time-range loop: ISSUEDATE present and parsed without an exception
AetnaProcessed(policy) ==
    /\ policy.ISSUEDATE.fmt \notin {"missing", "blank"}
    /\ parseAetnaDate(policy.ISSUEDATE).kind = "date"

AetnaWindows(policies, currentDate) ==
    [range \in Ranges |->
        SelectSeq(policies,
            LAMBDA policy :
                /\ AetnaProcessed(policy)
                /\ WithinRange(monthsSinceIssue(currentDate, parseAetnaDate(policy.ISSUEDATE).date),
                               range))]

AetnaBreakdown(window) ==
    LET totalStatusCount == Len(window)
    IN  [status \in {OptionalTrim(window[i].STATUSCATEGORY) : i \in 1..Len(window)} |->
            LET count == Count(window, LAMBDA p : OptionalTrim(p.STATUSCATEGORY) = status)
            IN  [count |-> count, percentage |-> Percentage(count, totalStatusCount)]]

AetnaTimeRange(window) ==
    AnalysisResult(
        Count(window, LAMBDA p : persistencyImpact(OptionalTrim(p.STATUSCATEGORY)) = "positive"),
        Count(window, LAMBDA p : persistencyImpact(OptionalTrim(p.STATUSCATEGORY)) = "negative"))

analyzeAetnaPolicies(policies, currentDate) ==
    CarrierResult("Aetna",
        [range \in Ranges |-> AetnaTimeRange(AetnaWindows(policies, currentDate)[range])],
        [range \in Ranges |-> AetnaBreakdown(AetnaWindows(policies, currentDate)[range])],
        Len(policies))

AflacProcessed(policy) ==
    /\ policy.ISSUEDATE.fmt \notin {"missing", "blank"}
    /\ parseAflacDateRoute(policy.ISSUEDATE).kind = "date"

AflacWindows(policies, currentDate) ==
    [range \in Ranges |->
        SelectSeq(policies,
            LAMBDA policy :
                /\ AflacProcessed(policy)
                /\ WithinRange(monthsSinceIssue(currentDate, parseAflacDateRoute(policy.ISSUEDATE).date),
                               range))]

analyzeAflacPolicies(policies, currentDate) ==
    CarrierResult("Aflac",
        [range \in Ranges |-> AetnaTimeRange(AflacWindows(policies, currentDate)[range])],
        [range \in Ranges |-> AetnaBreakdown(AflacWindows(policies, currentDate)[range])],
        Len(policies))

(***************************************************************************)
(* The environment of one server process: the current instant and the      *)
(* offset of its time zone (-1: west of UTC, where UTC midnight falls on   *)
(* the previous local day; 0: UTC or east of it).                          *)
(***************************************************************************)
TzShifts == {-1, 0}

Idle == <<>>

(***************************************************************************)
(* Classification of one record (specification SpecClassify).              *)
(***************************************************************************)
DateFormats == {"mdy", "ymd", "serial"}

ProbeRefDays == {<<2020, 1, 15>>, <<2020, 1, 2>>, <<2020, 1, 31>>}
ProbeSecDays == {<<2022, 1, 31>>, <<2022, 2, 1>>, <<2022, 2, 28>>, <<2021, 6, 1>>, <<2022, 6, 1>>}

CellsOf(days, fmts) ==
    {Cell(f, x[1], x[2], x[3]) : f \in fmts, x \in days} \cup {BlankCell, MissingCell, NACell}

ProbeStatuses ==
    [AMAM     |-> {"DeathClaim", "Active", "Active ", "Terminated", "Act-Pastdue", "", Undefined},
     Combined |-> {"In-Force", "Issued", "Terminated", "Lapse-Pending", "Pending", "", Undefined},
     RNA      |-> {"CONTRACT ACTIVE", " CONTRACT ACTIVE", "CON TERM DEATH CLAIM", "CON TERM LAPSED",
                   "CON PEND ISSUE", "", Undefined},
     Aflac    |-> {"Active", "Active ", "Terminated", "Lapsed", "", Undefined},
     Aetna    |-> {"Active", "Active ", "Terminated", "Lapsed", "", Undefined}]

ProbeDisplayTexts == {"Death Claim", "Active", "Lapse Pending", "", Undefined}

ProbeInputs ==
    {[carrier |-> c, status |-> s, disp |-> "", ref |-> r, sec |-> q, out |-> "none"] :
        c \in {"AMAM"}, s \in ProbeStatuses.AMAM,
        r \in CellsOf(ProbeRefDays, DateFormats), q \in CellsOf(ProbeSecDays, DateFormats)}
    \cup
    {[carrier |-> c, status |-> s, disp |-> "", ref |-> BlankCell, sec |-> BlankCell, out |-> "none"] :
        c \in {"Combined"}, s \in ProbeStatuses.Combined}
    \cup
    {[carrier |-> c, status |-> s, disp |-> "", ref |-> BlankCell, sec |-> BlankCell, out |-> "none"] :
        c \in {"RNA"}, s \in ProbeStatuses.RNA}
    \cup
    {[carrier |-> c, status |-> s, disp |-> t, ref |-> r, sec |-> q, out |-> "none"] :
        c \in {"Aflac", "Aetna"}, s \in {"Active", "Terminated", Undefined},
        t \in ProbeDisplayTexts,
        r \in CellsOf(ProbeRefDays, DateFormats), q \in CellsOf(ProbeSecDays, DateFormats)}

ProbePolicy ==
    [STATUSCATEGORY |-> probe.status, STATUSDISPLAYTEXT |-> probe.disp,
     ORIGEFFDATE |-> probe.ref, TERMDATE |-> probe.sec]

InitClassify ==
    /\ db = Idle /\ ui = Idle
    /\ env \in [now : {0}, tz : TzShifts]
    /\ probe \in ProbeInputs
    /\ upload = Idle /\ analysis = Idle /\ req = Idle /\ pc = "classify"
    /\ scopedPolicies = Idle /\ results = Idle /\ lapsePolicies = Idle /\ response = Idle

Classified(outcome) ==
    /\ probe' = [probe EXCEPT !.out = outcome]
    /\ UNCHANGED <<db, ui, env, upload, analysis, req, pc, scopedPolicies, results, lapsePolicies, response>>

ClassifyAMAM ==
    /\ pc = "classify" /\ probe.out = "none" /\ probe.carrier = "AMAM"
    /\ Classified(classifyAMAMPolicy(probe.status, probe.ref, probe.sec))

ClassifyCombined ==
    /\ pc = "classify" /\ probe.out = "none" /\ probe.carrier = "Combined"
    /\ Classified(classifyCombinedPolicy(probe.status))

ClassifyRoyalNeighbors ==
    /\ pc = "classify" /\ probe.out = "none" /\ probe.carrier = "RNA"
    /\ Classified(classifyRoyalNeighborsStatus(probe.status))

ClassifyAflac ==
    /\ pc = "classify" /\ probe.out = "none" /\ probe.carrier = "Aflac"
    /\ Classified(classifyAflacPolicy(ProbePolicy, env.tz))

ClassifyAetna ==
    /\ pc = "classify" /\ probe.out = "none" /\ probe.carrier = "Aetna"
    /\ Classified(classifyAetnaPolicy(ProbePolicy, env.tz))

NextClassify ==
    \/ ClassifyAMAM
    \/ ClassifyCombined
    \/ ClassifyRoyalNeighbors
    \/ ClassifyAflac
    \/ ClassifyAetna

SpecClassify == InitClassify /\ [][NextClassify]_vars

\* the record is a death claim for its carrier's classifier
IsDeathClaim ==
    \/ probe.carrier = "AMAM" /\ probe.status = "DeathClaim"
    \/ probe.carrier \in {"Aflac", "Aetna"} /\ IncludesDeath(OrEmpty(probe.disp))

\* the cell holds a calendar day in an encoding the carrier's parser reads
ParseableBy(carrier, cell) ==
    \/ carrier = "AMAM" /\ cell.fmt = "mdy"
    \/ carrier \in {"Aflac", "Aetna"} /\ cell.fmt \in DateFormats

CalendarMonths(a, b) == (b.y - a.y) * 12 + (b.m - a.m)

\* C3: a death claim with both dates parseable is positive exactly when the
\* calendar months from the reference date to the secondary date exceed 24, and
\* negative otherwise, whatever the days of the month.
C3_DeathClaimByCalendarMonths ==
    (/\ pc = "classify" /\ probe.out # "none" /\ IsDeathClaim
     /\ ParseableBy(probe.carrier, probe.ref) /\ ParseableBy(probe.carrier, probe.sec))
    => /\ probe.out \in {"positive", "negative"}
       /\ (probe.out = "positive") <=> (CalendarMonths(probe.ref, probe.sec) > 24)

\* C4: a death claim whose secondary date is missing, empty or unparseable
\* classifies negative.
C4_DeathClaimNoSecondaryDateNegative ==
    (/\ pc = "classify" /\ probe.out # "none" /\ IsDeathClaim
     /\ probe.sec.fmt \in {"blank", "missing", "na"})
    => probe.out = "negative"

\* C13: for every carrier and every status (declared, unknown, empty or
\* missing) with any reference and secondary date, the classifier returns, and
\* what it returns is one of positive, negative, neutral.
C13_ClassifierTotal ==
    pc = "classify" =>
        /\ probe.out = "none" => ENABLED NextClassify
        /\ probe.out # "none" => probe.out \in {"positive", "negative", "neutral"}

C13_Witness ==
    /\ pc = "classify" /\ probe.carrier = "AMAM" /\ probe.status = "DeathClaim"
    /\ probe.ref.fmt = "missing" /\ probe.out = "negative"

ActiveCategory == trim(OrEmpty(probe.status)) = "Active"

LongDeathClaim ==
    /\ IsDeathClaim
    /\ ParseableBy(probe.carrier, probe.ref) /\ ParseableBy(probe.carrier, probe.sec)
    /\ CalendarMonths(probe.ref, probe.sec) > 24

\* C24: an Aflac or Aetna policy is positive exactly when its STATUSCATEGORY
\* is Active or it is a death claim whose TERMDATE lies more than 24 months
\* after its ORIGEFFDATE, and negative otherwise; so every policy whose
\* STATUSCATEGORY is Active is positive.
C24_ActiveOrLongDeathClaimPositive ==
    (pc = "classify" /\ probe.out # "none" /\ probe.carrier \in {"Aflac", "Aetna"})
    => /\ probe.out \in {"positive", "negative"}
       /\ (probe.out = "positive") <=> (ActiveCategory \/ LongDeathClaim)
       /\ ActiveCategory => probe.out = "positive"

\* what the two classifiers do: the category decides only for a policy that
\* is not a death claim
C24_CategoryDecidesUnlessDeathClaim ==
    (/\ pc = "classify" /\ probe.out # "none" /\ probe.carrier \in {"Aflac", "Aetna"}
     /\ ~IsDeathClaim)
    => (probe.out = "positive") <=> ActiveCategory

(***************************************************************************)
(* Analysis of one carrier file (specification SpecAnalyze): the rows of   *)
(* an uploaded file, the server's current instant, and the result of the   *)
(* carrier's analysis function with the rows it selected per window.       *)
(***************************************************************************)
\* the current instant: the middle of 2026-03-15 or of 2026-05-31
AnalyzeNows ==
    {[ok |-> TRUE, t |-> 2 * DaysFromCivil(2026, 3, 15) + 1],
     [ok |-> TRUE, t |-> 2 * DaysFromCivil(2026, 5, 31) + 1]}

PaidTo == Cell("mdy", 2026, 4, 1)

AMAMRow(status, policyDate) ==
    [Status |-> status, PolicyDate |-> policyDate, PaidtoDate |-> PaidTo]
AMAMRows ==
    {AMAMRow("Active", Cell("mdy", 2026, 2, 1)),
     AMAMRow("Terminated", Cell("mdy", 2026, 2, 1)),
     AMAMRow("Active", Cell("mdy", 2025, 12, 1)),
     AMAMRow("Terminated", Cell("mdy", 2024, 1, 10)),
     AMAMRow("Active", BlankCell),
     AMAMRow("Terminated", MissingCell),
     AMAMRow("", Cell("mdy", 2026, 2, 1)),
     AMAMRow("DeathClaim", NACell)}

CombinedRow(status, effectiveDate) == [status |-> status, effective_date |-> effectiveDate]
CombinedRows ==
    {CombinedRow("In-Force", Cell("ymd", 2026, 2, 1)),
     CombinedRow("Terminated", Cell("ymd", 2026, 2, 1)),
     CombinedRow("Lapse-Pending", Cell("ymd", 2025, 12, 1)),
     CombinedRow("Issued", Cell("ymd", 2024, 1, 10)),
     CombinedRow("In-Force", BlankCell),
     CombinedRow("Terminated", MissingCell),
     CombinedRow("", Cell("ymd", 2026, 2, 1)),
     CombinedRow("In-Force", NACell)}

RNARow(status, activationDate) ==
    [CurrentContractStatusReason1 |-> status, ActivationDate1 |-> activationDate]
RNARows ==
    {RNARow("CONTRACT ACTIVE", Cell("ymd", 2026, 2, 1)),
     RNARow("CON TERM LAPSED", Cell("mdy", 2026, 2, 1)),
     RNARow("CON PEND ISSUE", Cell("ymd", 2026, 2, 1)),
     RNARow("", Cell("ymd", 2026, 2, 1)),
     RNARow(" CONTRACT ACTIVE", Cell("mdy", 2025, 12, 1)),
     RNARow("CON TERM LAPSED", Cell("ymd", 2024, 1, 10)),
     RNARow("CONTRACT ACTIVE", BlankCell),
     RNARow(Undefined, NACell)}

XLSXRow(statusCategory, issueDate) == [STATUSCATEGORY |-> statusCategory, ISSUEDATE |-> issueDate]
XLSXRows ==
    {XLSXRow("Active", Cell("mdy", 2026, 2, 1)),
     XLSXRow("Terminated", Cell("ymd", 2026, 2, 1)),
     XLSXRow("Pending", Cell("mdy", 2026, 2, 1)),
     XLSXRow("", Cell("mdy", 2026, 2, 1)),
     XLSXRow("Active ", Cell("mdy", 2025, 12, 1)),
     XLSXRow("Lapsed", Cell("mdy", 2024, 1, 10)),
     XLSXRow("Active", BlankCell),
     XLSXRow(Undefined, NACell)}

RowsOf(carrier) ==
    CASE carrier = "AMAM"     -> AMAMRows
      [] carrier = "Combined" -> CombinedRows
      [] carrier = "RNA"      -> RNARows
      [] OTHER                -> XLSXRows

SeqsUpTo(S, n) == UNION {[1..k -> S] : k \in 0..n}

NoAnalysis == [done |-> FALSE]

InitAnalyze ==
    /\ db = Idle /\ ui = Idle
    /\ env \in [now : AnalyzeNows, tz : {0}]
    /\ \E carrier \in {"AMAM", "Combined", "RNA", "Aetna", "Aflac"} :
          upload \in [carrier : {carrier}, rows : SeqsUpTo(RowsOf(carrier), MaxRows)]
    /\ analysis = NoAnalysis
    /\ probe = Idle /\ req = Idle /\ pc = "analyze"
    /\ scopedPolicies = Idle /\ results = Idle /\ lapsePolicies = Idle /\ response = Idle

Analyzed(result, windows) ==
    /\ analysis' = [done |-> TRUE, result |-> result, windows |-> windows]
    /\ UNCHANGED <<db, ui, env, probe, upload, req, pc, scopedPolicies, results, lapsePolicies, response>>

AnalyzeAmericanAmicable ==
    /\ pc = "analyze" /\ ~analysis.done /\ upload.carrier = "AMAM"
    /\ Analyzed(analyzeAmericanAmicable(upload.rows, env.now), AMAMWindows(upload.rows, env.now))

AnalyzeCombined ==
    /\ pc = "analyze" /\ ~analysis.done /\ upload.carrier = "Combined"
    /\ Analyzed(analyzeCombined(upload.rows, env.now), CombinedWindows(upload.rows, env.now))

AnalyzeRoyalNeighbors ==
    /\ pc = "analyze" /\ ~analysis.done /\ upload.carrier = "RNA"
    /\ Analyzed(analyzeRoyalNeighbors(upload.rows, env.now), RNAWindows(upload.rows, env.now))

AnalyzeAetna ==
    /\ pc = "analyze" /\ ~analysis.done /\ upload.carrier = "Aetna"
    /\ Analyzed(analyzeAetnaPolicies(upload.rows, env.now), AetnaWindows(upload.rows, env.now))

AnalyzeAflac ==
    /\ pc = "analyze" /\ ~analysis.done /\ upload.carrier = "Aflac"
    /\ Analyzed(analyzeAflacPolicies(upload.rows, env.now), AflacWindows(upload.rows, env.now))

NextAnalyze ==
    \/ AnalyzeAmericanAmicable
    \/ AnalyzeCombined
    \/ AnalyzeRoyalNeighbors
    \/ AnalyzeAetna
    \/ AnalyzeAflac

SpecAnalyze == InitAnalyze /\ [][NextAnalyze]_vars

AnalysisDone == pc = "analyze" /\ analysis.done

\* the reference-date cell of a row
ReferenceCell(carrier, row) ==
    CASE carrier = "AMAM"     -> row.PolicyDate
      [] carrier = "Combined" -> row.effective_date
      [] carrier = "RNA"      -> row.ActivationDate1
      [] OTHER                -> row.ISSUEDATE

\* the raw status of a row
StatusCell(carrier, row) ==
    CASE carrier = "AMAM"     -> row.Status
      [] carrier = "Combined" -> row.status
      [] carrier = "RNA"      -> row.CurrentContractStatusReason1
      [] OTHER                -> row.STATUSCATEGORY

HasReferenceDate(carrier, row) == ReferenceCell(carrier, row).fmt \in {"mdy", "ymd"}

\* the day `months` calendar months before the current day: same day of the
\* month, month index reduced
MonthsAgo(now, months) ==
    LET today == CivilFromDays(now.t \div 2)
    IN  NewDate(today.y, today.m - 1 - months, today.d).t \div 2

OnOrAfter(cell, day) == DaysFromCivil(cell.y, cell.m, cell.d) >= day

RECURSIVE SumOver(_, _)
SumOver(breakdown, labels) ==
    IF labels = {} THEN 0
    ELSE LET l == CHOOSE x \in labels : TRUE
         IN  breakdown[l].count + SumOver(breakdown, labels \ {l})

BreakdownTotal(breakdown) == SumOver(breakdown, DOMAIN breakdown)

DatedRows == SelectSeq(upload.rows, LAMBDA row : HasReferenceDate(upload.carrier, row))

\* C5: for each window of 3, 6 and 9 months the rows selected are exactly the
\* rows with a parseable reference date on or after the current day moved back
\* that many calendar months.
C5_WindowsByCalendarMonths ==
    AnalysisDone =>
        \A range \in {"3", "6", "9"} :
            analysis.windows[range] =
                SelectSeq(upload.rows,
                    LAMBDA row :
                        /\ HasReferenceDate(upload.carrier, row)
                        /\ OnOrAfter(ReferenceCell(upload.carrier, row),
                                     MonthsAgo(env.now, MonthsBack(range))))

Abs(x) == IF x < 0 THEN -x ELSE x

\* C7: in every window positivePercentage is positiveCount / (positiveCount +
\* negativeCount) * 100 to the nearest hundredth, and 0 when the denominator is 0.
C7_PositivePercentageRounded ==
    AnalysisDone =>
        \A range \in Ranges :
            LET a     == analysis.result.timeRanges[range]
                total == a.positiveCount + a.negativeCount
            IN  /\ a.positivePercentage \in 0..10000
                /\ total = 0 => a.positivePercentage = 0
                /\ total > 0 =>
                      2 * Abs(a.positivePercentage * total - 10000 * a.positiveCount) <= total

\* a result with an empty window (0/0) and a window at two thirds (66.67)
C7_Witness ==
    /\ AnalysisDone
    /\ \E range \in Ranges :
          /\ analysis.result.timeRanges[range].positiveCount = 0
          /\ analysis.result.timeRanges[range].negativeCount = 0
          /\ analysis.result.timeRanges[range].positivePercentage = 0
    /\ \E range \in Ranges :
          /\ analysis.result.timeRanges[range].positiveCount = 2
          /\ analysis.result.timeRanges[range].negativeCount = 1
          /\ analysis.result.timeRanges[range].positivePercentage = 6667

\* the row classifies neutral under its carrier's rules
NeutralRow(carrier, row) ==
    \/ carrier = "RNA" /\ classifyRoyalNeighborsStatus(row.CurrentContractStatusReason1) = "neutral"
    \/ carrier \in {"Aetna", "Aflac"}
         /\ persistencyImpact(OptionalTrim(row.STATUSCATEGORY)) = "neutral"

\* C8: in every window positiveCount + negativeCount is at most the number of
\* rows selected into the window less the rows that classify neutral.
C8_NeutralNotCounted ==
    AnalysisDone =>
        \A range \in Ranges :
            LET a == analysis.result.timeRanges[range]
                w == analysis.windows[range]
            IN  /\ a.positiveCount + a.negativeCount <= Len(w)
                /\ a.positiveCount + a.negativeCount
                     <= Len(w) - Count(w, LAMBDA row : NeutralRow(upload.carrier, row))

\* a Royal Neighbors window holding a neutral row beside a counted one
C8_Witness ==
    /\ AnalysisDone
    /\ upload.carrier = "RNA"
    /\ \E range \in Ranges :
          /\ Count(analysis.windows[range], LAMBDA row : NeutralRow("RNA", row)) >= 1
          /\ analysis.result.timeRanges[range].positiveCount = 1
          /\ analysis.result.timeRanges[range].negativeCount = 1
          /\ Len(analysis.windows[range]) = 3

\* C9: the All window's positiveCount and negativeCount are each at least those
\* of the 3-, 6- and 9-month windows.
C9_AllWindowDominates ==
    AnalysisDone =>
        \A range \in {"3", "6", "9"} :
            /\ analysis.result.timeRanges["All"].positiveCount
                 >= analysis.result.timeRanges[range].positiveCount
            /\ analysis.result.timeRanges["All"].negativeCount
                 >= analysis.result.timeRanges[range].negativeCount

\* an Aetna result whose 3-month window counts policies and whose All window counts more
C9_Witness ==
    /\ AnalysisDone
    /\ upload.carrier = "Aetna"
    /\ analysis.result.timeRanges["3"].positiveCount = 1
    /\ analysis.result.timeRanges["All"].positiveCount = 1
    /\ analysis.result.timeRanges["3"].negativeCount = 1
    /\ analysis.result.timeRanges["All"].negativeCount = 2

\* the label under which a row is counted in the breakdown
BreakdownLabel(carrier, row) ==
    CASE carrier \in {"AMAM", "Combined"} -> StatusCell(carrier, row)
      [] carrier = "RNA"                   -> RNAStatus(row)
      [] OTHER                             -> OptionalTrim(row.STATUSCATEGORY)

\* C10: in every window the breakdown covers every row of the window, those
\* with a neutral or a blank status included: each row's status is listed, the
\* counts sum to the number of rows and each percentage is the count over the
\* number of rows of the window.
C10_BreakdownCoversWindow ==
    AnalysisDone =>
        \A range \in Ranges :
            LET b == analysis.result.statusBreakdowns[range]
                w == analysis.windows[range]
            IN  /\ BreakdownTotal(b) = Len(w)
                /\ \A i \in 1..Len(w) : BreakdownLabel(upload.carrier, w[i]) \in DOMAIN b
                /\ \A l \in DOMAIN b :
                      2 * Abs(b[l].percentage * Len(w) - 10000 * b[l].count) <= Len(w)

(***************************************************************************)
(* The scoped analysis handler (src/unnamed/part_007).  Writing-agent      *)
(* numbers are texts, sequences of characters, so that the clean-up of the *)
(* formula wrapper =("...") is computed character by character.            *)
(***************************************************************************)
UndefinedText == <<Undefined>>

RECURSIVE RemoveFormulaOpen(_)
\* line.replace(/=\(/g, '')
RemoveFormulaOpen(text) ==
    IF Len(text) < 2 THEN text
    ELSE IF text[1] = "=" /\ text[2] = "("
         THEN RemoveFormulaOpen(SubSeq(text, 3, Len(text)))
         ELSE <<text[1]>> \o RemoveFormulaOpen(Tail(text))

RemoveChars(text, chars) == SelectSeq(text, LAMBDA ch : ch \notin chars)

\* a field in double quotes is read without them
PapaField(text) ==
    IF Len(text) >= 2 /\ text[1] = "\"" /\ text[Len(text)] = "\""
    THEN SubSeq(text, 2, Len(text) - 1)
    ELSE text

RECURSIVE trimStart(_)
trimStart(text) ==
    IF text # <<>> /\ text[1] = " " THEN trimStart(Tail(text)) ELSE text

RECURSIVE trimEnd(_)
trimEnd(text) ==
    IF text # <<>> /\ text[Len(text)] = " " THEN trimEnd(SubSeq(text, 1, Len(text) - 1)) ELSE text

trimText(text) == trimEnd(trimStart(text))

\* the WritingAgent column after the =( and ) clean-up of every line
parseAMAMCSV(content) ==
    [i \in 1..Len(content) |->
        [content[i] EXCEPT !.WritingAgent =
            IF @ = UndefinedText THEN @
            ELSE PapaField(RemoveChars(RemoveFormulaOpen(@), {")"}))]]

\* agentNumber?.replace(/[="()]/g, '').trim()
cleanNumber(agentNumber) ==
    IF agentNumber = UndefinedText THEN UndefinedText
    ELSE trimText(RemoveChars(agentNumber, {"=", "\"", "(", ")"}))

Includes(list, x) == \E i \in 1..Len(list) : list[i] = x

\* filterMode is Undefined when the form has no filter_mode
shouldIncludePolicy(agentNumber, filterMode, writingAgentNumbers) ==
    IF filterMode = Undefined \/ Len(writingAgentNumbers) = 0
    THEN TRUE
    ELSE Includes(writingAgentNumbers, cleanNumber(agentNumber))

\* JSON.parse of writing_agent_numbers inside try/catch; [] when absent or malformed
parseWritingAgentNumbers(field) == IF field.kind = "json" THEN field.list ELSE <<>>

\* the percentage of part_007's breakdowns is not rounded: an exact fraction
ExactPercentage(count, total) ==
    IF total > 0 THEN [num |-> 100 * count, den |-> total] ELSE [num |-> 0, den |-> 1]

getAMAMStatusBreakdownP7(policies) ==
    [status \in {policies[i].Status : i \in 1..Len(policies)} |->
        LET count == Count(policies, LAMBDA policy : policy.Status = status)
        IN  [count |-> count, percentage |-> ExactPercentage(count, Len(policies))]]

analyzeAmericanAmicableP7(policies, now) ==
    CarrierResult("American Amicable",
        [range \in Ranges |-> analyzeAMAMTimeRange(AMAMWindows(policies, now)[range])],
        [range \in Ranges |-> getAMAMStatusBreakdownP7(AMAMWindows(policies, now)[range])],
        Len(policies))

getCombinedStatusBreakdownP7(policies) ==
    [status \in {policies[i].status : i \in 1..Len(policies)} |->
        LET count == Count(policies, LAMBDA policy : policy.status = status)
        IN  [count |-> count, percentage |-> ExactPercentage(count, Len(policies))]]

analyzeCombinedP7(policies, now) ==
    CarrierResult("Combined Insurance",
        [range \in Ranges |-> analyzeCombinedTimeRange(CombinedWindows(policies, now)[range])],
        [range \in Ranges |-> getCombinedStatusBreakdownP7(CombinedWindows(policies, now)[range])],
        Len(policies))

(* Aflac *)
filterAflacPoliciesByTimeRange(policies, monthsBack, now, tz) ==
    SelectSeq(policies,
        LAMBDA p :
            LET eff == parseAflacDate(p.ORIGEFFDATE, tz)
            IN  eff.kind = "date" /\ eff.date.t >= cutoffDate(now, monthsBack).t)

analyzeAflacTimeRange(policies, tz) ==
    LET positiveCount == Count(policies, LAMBDA policy : classifyAflacPolicy(policy, tz) = "positive")
        negativeCount == Len(policies) - positiveCount
    IN  AnalysisResult(positiveCount, negativeCount)

\* (policy.STATUSCATEGORY || 'UNKNOWN').trim()
CategoryOrUnknown(policy) ==
    IF policy.STATUSCATEGORY \in {Undefined, ""} THEN "UNKNOWN" ELSE trim(policy.STATUSCATEGORY)

getAflacStatusBreakdown(policies) ==
    [status \in {CategoryOrUnknown(policies[i]) : i \in 1..Len(policies)} |->
        LET count == Count(policies, LAMBDA policy : CategoryOrUnknown(policy) = status)
        IN  [count |-> count, percentage |-> ExactPercentage(count, Len(policies))]]

AflacWindowsP7(policies, now, tz) ==
    [range \in Ranges |->
        IF range = "All" THEN policies
        ELSE filterAflacPoliciesByTimeRange(policies, MonthsBack(range), now, tz)]

analyzeAflac(policies, now, tz) ==
    CarrierResult("Aflac",
        [range \in Ranges |-> analyzeAflacTimeRange(AflacWindowsP7(policies, now, tz)[range], tz)],
        [range \in Ranges |-> getAflacStatusBreakdown(AflacWindowsP7(policies, now, tz)[range])],
        Len(policies))

\* x || fallback on a text cell
OrElse(x, fallback) == IF x \in {Undefined, ""} THEN fallback ELSE x

\* [p.STATUSCATEGORY, p.STATUSDISPLAYTEXT].filter(Boolean)
TruthyStatuses(p) ==
    SelectSeq(<<p.STATUSCATEGORY, p.STATUSDISPLAYTEXT>>, LAMBDA x : x \notin {Undefined, ""})

\* daysToLapse: null, or a number of days
NullDays == [known |-> FALSE, days |-> 0]
KnownDays(n) == [known |-> TRUE, days |-> n]

LapseCandidate(id, carrier, first, last, phone, statuses) ==
    [id |-> id, carrier |-> carrier, insuredFirstName |-> first, insuredLastName |-> last,
     phone |-> phone, statuses |-> statuses, daysToLapse |-> NullDays]

\* Array.prototype.map over a sequence
Map(seq, F(_)) == [i \in 1..Len(seq) |-> F(seq[i])]

extractLapsePoliciesFromAflac(policies) ==
    Map(SelectSeq(policies,
            LAMBDA p : \/ trim(OrEmpty(p.STATUSCATEGORY)) = "Lapsed"
                       \/ IncludesLapse(OrEmpty(p.STATUSDISPLAYTEXT))),
        LAMBDA p : LapseCandidate(<<p.POLICYNUMBER, 0>>, "Aflac", OrElse(p.FIRSTNAME, ""),
                                  OrElse(p.LASTNAME, ""), OrElse(p.PHONE1, "null"),
                                  TruthyStatuses(p)))

(* Aetna *)
filterAetnaPoliciesByTimeRange(policies, monthsBack, now, tz) ==
    SelectSeq(policies,
        LAMBDA p :
            LET eff == parseAetnaDateXLSX(p.ORIGEFFDATE, tz)
            IN  eff.kind = "date" /\ eff.date.t >= cutoffDate(now, monthsBack).t)

analyzeAetnaTimeRange(policies, tz) ==
    LET positiveCount == Count(policies, LAMBDA policy : classifyAetnaPolicy(policy, tz) = "positive")
        negativeCount == Len(policies) - positiveCount
    IN  AnalysisResult(positiveCount, negativeCount)

getAetnaStatusBreakdown(policies) ==
    [status \in {CategoryOrUnknown(policies[i]) : i \in 1..Len(policies)} |->
        LET count == Count(policies, LAMBDA policy : CategoryOrUnknown(policy) = status)
        IN  [count |-> count, percentage |-> ExactPercentage(count, Len(policies))]]

AetnaWindowsP7(policies, now, tz) ==
    [range \in Ranges |->
        IF range = "All" THEN policies
        ELSE filterAetnaPoliciesByTimeRange(policies, MonthsBack(range), now, tz)]

analyzeAetna(policies, now, tz) ==
    CarrierResult("Aetna",
        [range \in Ranges |-> analyzeAetnaTimeRange(AetnaWindowsP7(policies, now, tz)[range], tz)],
        [range \in Ranges |-> getAetnaStatusBreakdown(AetnaWindowsP7(policies, now, tz)[range])],
        Len(policies))

extractLapsePoliciesFromAetna(policies) ==
    Map(SelectSeq(policies,
            LAMBDA p : \/ trim(OrEmpty(p.STATUSCATEGORY)) = "Lapsed"
                       \/ IncludesLapse(OrEmpty(p.STATUSDISPLAYTEXT))),
        LAMBDA p : LapseCandidate(<<p.POLICYNUMBER, 0>>, "Aetna", OrElse(p.FIRSTNAME, ""),
                                  OrElse(p.LASTNAME, ""), OrElse(p.PHONE1, "null"),
                                  TruthyStatuses(p)))

(* American Amicable and Combined lapse extraction; draws[i] is the value of
   Math.random() for the i-th at-risk policy *)
AMAMLapseStatuses == {"Act-Pastdue", "IssNotPaid", "Pending", "NeedReqmnt"}

extractLapsePoliciesFromAMAM(policies, draws) ==
    LET atRisk == SelectSeq(policies, LAMBDA p : p.Status \in AMAMLapseStatuses)
    IN  [i \in 1..Len(atRisk) |->
            LET p == atRisk[i]
            IN  LapseCandidate(
                    IF p.Policy \in {Undefined, ""}
                    THEN <<"FirstName-LastName-", draws[i]>>
                    ELSE <<p.Policy, 0>>,
                    "American Amicable", OrElse(p.FirstName, ""), OrElse(p.LastName, ""),
                    OrElse(p.Phone, "null"), <<p.Status>>)]

extractLapsePoliciesFromCombined(policies, draws) ==
    LET atRisk == SelectSeq(policies, LAMBDA p : p.status = "Lapse-Pending")
    IN  [i \in 1..Len(atRisk) |->
            LET p == atRisk[i]
            IN  LapseCandidate(
                    IF p.policy_number \in {Undefined, ""}
                    THEN <<"combined-", draws[i]>>
                    ELSE <<p.policy_number, 0>>,
                    "Combined", OrElse(p.first_name, ""), OrElse(p.last_name, ""),
                    OrElse(p.phone, "null"), <<"Lapse-Pending">>)]

(***************************************************************************)
(* Specification SpecScoped: one request to the scoped analysis handler.   *)
(* The client composes the form (one file per carrier, the filter fields   *)
(* are chosen with the form), then the handler runs its blocks in order:   *)
(* American Amicable, Combined, Aflac, Aetna, response.                    *)
(***************************************************************************)
ScopedNow == [ok |-> TRUE, t |-> 2 * DaysFromCivil(2026, 3, 15) + 1]

A1 == <<"A", "1">>
A2 == <<"A", "2">>
\* =("A1"), ="A1" and a padded number, as the carrier's export writes them
Wrapped(number) == <<"=", "(", "\"">> \o number \o <<"\"", ")">>
FormulaText(number) == <<"=", "\"">> \o number \o <<"\"">>
Padded(number) == <<" ">> \o number \o <<" ">>

ScopedAMAMRow(agent, policy, status, policyDate) ==
    [WritingAgent |-> agent, Policy |-> policy, FirstName |-> "Ann", LastName |-> "Lee",
     Phone |-> Undefined, Status |-> status, PolicyDate |-> policyDate, PaidtoDate |-> PaidTo]
ScopedAMAMRows ==
    {ScopedAMAMRow(Wrapped(A1), "P1", "Act-Pastdue", Cell("mdy", 2026, 2, 1)),
     ScopedAMAMRow(FormulaText(A2), "P2", "Pending", Cell("mdy", 2025, 12, 1)),
     ScopedAMAMRow(Padded(A1), "", "IssNotPaid", Cell("mdy", 2026, 2, 1)),
     ScopedAMAMRow(UndefinedText, "P4", "Active", Cell("mdy", 2026, 2, 1))}

ScopedCombinedRow(agent, policy, status, effectiveDate) ==
    [agent_number |-> agent, policy_number |-> policy, first_name |-> "Bo", last_name |-> "Ray",
     phone |-> Undefined, status |-> status, effective_date |-> effectiveDate]
ScopedCombinedRows ==
    {ScopedCombinedRow(A1, "K1", "In-Force", Cell("ymd", 2026, 2, 1)),
     ScopedCombinedRow(A2, "K2", "Lapse-Pending", Cell("ymd", 2026, 2, 1)),
     ScopedCombinedRow(A2, "", "Lapse-Pending", Cell("ymd", 2025, 6, 1))}

ScopedXLSXRow(agent, policy, category, display, origEffDate, termDate) ==
    [AGENTID |-> agent, POLICYNUMBER |-> policy, FIRSTNAME |-> "Cy", LASTNAME |-> "Orr",
     PHONE1 |-> Undefined, STATUSCATEGORY |-> category, STATUSDISPLAYTEXT |-> display,
     ORIGEFFDATE |-> origEffDate, TERMDATE |-> termDate]
ScopedXLSXRows ==
    {ScopedXLSXRow(A1, "X1", "Active", "Active", Cell("mdy", 2026, 2, 1), BlankCell),
     ScopedXLSXRow(A2, "X2", "Lapsed", "Lapse Pending", Cell("ymd", 2025, 12, 15), BlankCell),
     ScopedXLSXRow(A2, "X3", "Terminated", "Death Claim",
                   Cell("mdy", 2020, 1, 2), Cell("ymd", 2022, 2, 1))}

Carriers == <<"american-amicable", "combined", "aflac", "aetna">>
FormKeys == {Carriers[i] : i \in 1..Len(Carriers)}

ScopedRowsOf(key) ==
    CASE key = "american-amicable" -> ScopedAMAMRows
      [] key = "combined"          -> ScopedCombinedRows
      [] OTHER                     -> ScopedXLSXRows

NoFile == [present |-> FALSE, rows |-> <<>>]

AbsentField == [kind |-> "absent", list |-> <<>>]
MalformedField == [kind |-> "malformed", list |-> <<>>]
JSONField(list) == [kind |-> "json", list |-> list]

\* the filter fields of the form: none (the older client), or a view with its list
FilterFields ==
    {[filter_mode |-> Undefined, writing_agent_numbers |-> AbsentField],
     [filter_mode |-> "my", writing_agent_numbers |-> JSONField(<<A1>>)],
     [filter_mode |-> "my", writing_agent_numbers |-> MalformedField],
     [filter_mode |-> "downline", writing_agent_numbers |-> JSONField(<<>>)],
     [filter_mode |-> "downline", writing_agent_numbers |-> JSONField(<<A2, A1>>)]}

RandomDraws == {1, 2}

RequestRows == Len(req.files["american-amicable"].rows) + Len(req.files["combined"].rows)
               + Len(req.files["aflac"].rows) + Len(req.files["aetna"].rows)

InitScoped ==
    /\ db = Idle /\ ui = Idle
    /\ env \in [now : {ScopedNow}, tz : TzShifts]
    /\ \E fields \in FilterFields :
          req = [files |-> [key \in FormKeys |-> NoFile],
                 filter_mode |-> fields.filter_mode,
                 writing_agent_numbers |-> fields.writing_agent_numbers]
    /\ pc = "compose"
    /\ scopedPolicies = <<>> /\ results = <<>> /\ lapsePolicies = <<>>
    /\ response = Idle
    /\ probe = Idle /\ upload = Idle /\ analysis = NoAnalysis

\* formData.append(key, file)
AttachFile ==
    /\ pc = "compose"
    /\ \E key \in FormKeys :
          /\ ~req.files[key].present
          /\ \E rows \in SeqsUpTo(ScopedRowsOf(key), MaxRequestRows - RequestRows) :
                req' = [req EXCEPT !.files[key] = [present |-> TRUE, rows |-> rows]]
    /\ UNCHANGED <<db, ui, env, probe, upload, analysis, pc, scopedPolicies, results, lapsePolicies, response>>

\* fetch('/api/analyze', { method: 'POST', body: formData })
Submit ==
    /\ pc = "compose"
    /\ pc' = "american-amicable"
    /\ UNCHANGED <<db, ui, env, probe, upload, analysis, req, scopedPolicies, results, lapsePolicies, response>>

filterMode == req.filter_mode
writingAgentNumbers == parseWritingAgentNumbers(req.writing_agent_numbers)
Filtering == filterMode # Undefined /\ Len(writingAgentNumbers) > 0

ProcessAmericanAmicable ==
    /\ pc = "american-amicable"
    /\ pc' = "combined"
    /\ IF req.files["american-amicable"].present
       THEN LET content == req.files["american-amicable"].rows
                parsed == parseAMAMCSV(content)
                policies == IF Filtering
                            THEN SelectSeq(parsed,
                                     LAMBDA p : shouldIncludePolicy(p.WritingAgent, filterMode,
                                                                    writingAgentNumbers))
                            ELSE parsed
                result == IF Filtering
                          THEN analyzeAmericanAmicableP7(policies, env.now)
                          ELSE analyzeAmericanAmicableP7(parsed, env.now)
            IN  /\ scopedPolicies' = policies
                /\ results' = Append(results, result)
                /\ \E draws \in [1..Len(policies) -> RandomDraws] :
                      lapsePolicies' = lapsePolicies \o extractLapsePoliciesFromAMAM(policies, draws)
       ELSE UNCHANGED <<scopedPolicies, results, lapsePolicies>>
    /\ UNCHANGED <<db, ui, env, probe, upload, analysis, req, response>>

ProcessCombined ==
    /\ pc = "combined"
    /\ pc' = "aflac"
    /\ IF req.files["combined"].present
       THEN LET policies == req.files["combined"].rows
            IN  /\ results' = Append(results, analyzeCombinedP7(policies, env.now))
                /\ \E draws \in [1..Len(policies) -> RandomDraws] :
                      lapsePolicies' = lapsePolicies \o extractLapsePoliciesFromCombined(policies, draws)
       ELSE UNCHANGED <<results, lapsePolicies>>
    /\ UNCHANGED <<db, ui, env, probe, upload, analysis, req, scopedPolicies, response>>

ProcessAflac ==
    /\ pc = "aflac"
    /\ pc' = "aetna"
    /\ IF req.files["aflac"].present
       THEN LET policies == req.files["aflac"].rows
            IN  /\ results' = Append(results, analyzeAflac(policies, env.now, env.tz))
                /\ lapsePolicies' = lapsePolicies \o extractLapsePoliciesFromAflac(policies)
       ELSE UNCHANGED <<results, lapsePolicies>>
    /\ UNCHANGED <<db, ui, env, probe, upload, analysis, req, scopedPolicies, response>>

ProcessAetna ==
    /\ pc = "aetna"
    /\ pc' = "respond"
    /\ IF req.files["aetna"].present
       THEN LET policies == req.files["aetna"].rows
            IN  /\ results' = Append(results, analyzeAetna(policies, env.now, env.tz))
                /\ lapsePolicies' = lapsePolicies \o extractLapsePoliciesFromAetna(policies)
       ELSE UNCHANGED <<results, lapsePolicies>>
    /\ UNCHANGED <<db, ui, env, probe, upload, analysis, req, scopedPolicies, response>>

RespondNoFiles ==
    /\ pc = "respond" /\ Len(results) = 0
    /\ pc' = "done"
    /\ response' = [status |-> 400, error |-> "No files provided"]
    /\ UNCHANGED <<db, ui, env, probe, upload, analysis, req, scopedPolicies, results, lapsePolicies>>

Respond ==
    /\ pc = "respond" /\ Len(results) # 0
    /\ pc' = "done"
    /\ response' = [status |-> 200, results |-> results, lapsePolicies |-> lapsePolicies]
    /\ UNCHANGED <<db, ui, env, probe, upload, analysis, req, scopedPolicies, results, lapsePolicies>>

\* the client keeps the response it received and sends the same form again
AnalyzeAgain ==
    /\ pc = "done" /\ ~analysis.done
    /\ analysis' = [done |-> TRUE, first |-> response]
    /\ pc' = "american-amicable"
    /\ scopedPolicies' = <<>> /\ results' = <<>> /\ lapsePolicies' = <<>>
    /\ response' = Idle
    /\ UNCHANGED <<db, ui, env, probe, upload, req>>

NextScoped ==
    \/ AttachFile
    \/ Submit
    \/ ProcessAmericanAmicable
    \/ ProcessCombined
    \/ ProcessAflac
    \/ ProcessAetna
    \/ RespondNoFiles
    \/ Respond
    \/ AnalyzeAgain

SpecScoped == InitScoped /\ [][NextScoped]_vars

(***************************************************************************)
(* Claims about the scoped handler.                                        *)
(***************************************************************************)
\* the column that carries the writing-agent number in each carrier's file
AgentOf(key, row) ==
    CASE key = "american-amicable" -> row.WritingAgent
      [] key = "combined"          -> row.agent_number
      [] OTHER                     -> row.AGENTID

PolicyNumberOf(key, row) ==
    CASE key = "american-amicable" -> row.Policy
      [] key = "combined"          -> row.policy_number
      [] OTHER                     -> row.POLICYNUMBER

ResultName(key) ==
    CASE key = "american-amicable" -> "American Amicable"
      [] key = "combined"          -> "Combined Insurance"
      [] key = "aflac"             -> "Aflac"
      [] OTHER                     -> "Aetna"

LapseName(key) == IF key = "combined" THEN "Combined" ELSE ResultName(key)

\* the rows of a file whose cleaned writing-agent number is on the allow-list
Permitted(key) ==
    SelectSeq(req.files[key].rows,
              LAMBDA row : Includes(writingAgentNumbers, cleanNumber(AgentOf(key, row))))

ScopedOnly(key) ==
    /\ \E i \in 1..Len(response.results) :
          LET result == response.results[i]
          IN  /\ result.carrier = ResultName(key)
              /\ result.totalPolicies = Len(Permitted(key))
              /\ result.timeRanges["All"].positiveCount + result.timeRanges["All"].negativeCount
                    = Len(Permitted(key))
              /\ BreakdownTotal(result.statusBreakdowns["All"]) = Len(Permitted(key))
    /\ \A j \in 1..Len(response.lapsePolicies) :
          LET candidate == response.lapsePolicies[j]
          IN  (candidate.carrier = LapseName(key) /\ candidate.id[2] = 0)
                 => \E n \in 1..Len(Permitted(key)) :
                       PolicyNumberOf(key, Permitted(key)[n]) = candidate.id[1]
    /\ Count(response.lapsePolicies, LAMBDA candidate : candidate.carrier = LapseName(key))
          <= Len(Permitted(key))

\* C1: in scoped mode with a non-empty allow-list, the agent filter is applied
\* to the file of every carrier (American Amicable, Combined, Aflac, Aetna)
\* before aggregation and before lapse extraction: each carrier's result and
\* lapse candidates come from the permitted rows of its file only.
C1_FilterAppliedToEveryCarrier ==
    (pc = "done" /\ response.status = 200 /\ Filtering)
        => \A key \in FormKeys : req.files[key].present => ScopedOnly(key)

\* the part of C1 the handler does implement: the American Amicable branch
C1_AmericanAmicableScoped ==
    (pc = "done" /\ response.status = 200 /\ Filtering
        /\ req.files["american-amicable"].present) => ScopedOnly("american-amicable")

C1_Witness ==
    /\ pc = "done" /\ response.status = 200 /\ Filtering
    /\ req.files["american-amicable"].present
    /\ Len(Permitted("american-amicable")) = 1
    /\ Len(req.files["american-amicable"].rows) = 2

\* C2: in scoped mode, for every allow-list including the empty one, the
\* filter retains exactly the policies whose cleaned writing-agent number is a
\* member of the allow-list; a policy whose cleaned number is not in the list
\* is never retained.
C2_RetainsExactlyAllowListed ==
    (pc \notin {"compose", "american-amicable"} /\ filterMode # Undefined
        /\ req.files["american-amicable"].present)
        => scopedPolicies =
              SelectSeq(parseAMAMCSV(req.files["american-amicable"].rows),
                        LAMBDA p : Includes(writingAgentNumbers, cleanNumber(p.WritingAgent)))

\* the same statement for non-empty allow-lists only
C2_RetainsExactlyAllowListedNonEmpty ==
    (pc \notin {"compose", "american-amicable"} /\ Filtering
        /\ req.files["american-amicable"].present)
        => scopedPolicies =
              SelectSeq(parseAMAMCSV(req.files["american-amicable"].rows),
                        LAMBDA p : Includes(writingAgentNumbers, cleanNumber(p.WritingAgent)))

C2_Witness ==
    /\ pc = "done" /\ Filtering
    /\ Len(scopedPolicies) = 1
    /\ scopedPolicies[1].WritingAgent = A1
    /\ Len(req.files["american-amicable"].rows) = 2

\* C15: two invocations with the same files and the same allow-list at the
\* same current date return identical output: the same results and the same
\* lapse candidates, ids included.
C15_SameRequestSameOutput ==
    (pc = "done" /\ analysis.done) => response = analysis.first

\* the same, for the results alone
C15_SameRequestSameResults ==
    (pc = "done" /\ analysis.done /\ response.status = 200)
        => /\ analysis.first.status = 200
           /\ response.results = analysis.first.results
           /\ Len(response.lapsePolicies) = Len(analysis.first.lapsePolicies)

(***************************************************************************)
(* Status breakdowns.                                                      *)
(***************************************************************************)
RECURSIVE SumPercentages(_, _)
SumPercentages(breakdown, labels) ==
    IF labels = {} THEN 0
    ELSE LET l == CHOOSE x \in labels : TRUE
         IN  breakdown[l].percentage + SumPercentages(breakdown, labels \ {l})

\* C11: for every carrier and every window that holds at least one policy, the
\* percentages of the window's status breakdown sum to 100 within 0.1
\* (percentages are hundredths of a percent: 10000 within 10).
C11_BreakdownPercentagesSumTo100 ==
    AnalysisDone =>
        \A range \in Ranges :
            LET b == analysis.result.statusBreakdowns[range]
            IN  Len(analysis.windows[range]) >= 1
                    => Abs(SumPercentages(b, DOMAIN b) - 10000) <= 10

\* the same for the windows in which some policy has a non-blank status
C11_SumTo100WhenSomeStatus ==
    AnalysisDone =>
        \A range \in Ranges :
            LET b == analysis.result.statusBreakdowns[range]
            IN  DOMAIN b # {} => Abs(SumPercentages(b, DOMAIN b) - 10000) <= 10

(***************************************************************************)
(* Specification SpecBreakdown: getRoyalNeighborsStatusBreakdownLimited    *)
(* applied to a window of policies.  The window holds up to MaxStatuses    *)
(* distinct statuses, each on one or two policies, in the order of the     *)
(* label list, and possibly a policy with a blank status.                  *)
(***************************************************************************)
MaxStatuses == 9

StatusNames == <<"CON TERM LAPSED", "CONTRACT ACTIVE", "CON PEND ISSUE", "CON TERM NT NO PAY",
                 "CON TERM WITHDRAWN", "CON SURRENDERED", "CON TERM DECLINED",
                 "CON TERM INCOMPLETE", "CON SUSPENDED", "CON PAID UP", "CON MATURED",
                 "CON DEATH CLAIM">>

\* the label list, with the second status literally named Other or not
LabelLists ==
    {StatusNames, [StatusNames EXCEPT ![2] = "Other"]}

CountChoices == {1, 2}

RECURSIVE Repeat(_, _)
Repeat(x, n) == IF n = 0 THEN <<>> ELSE <<x>> \o Repeat(x, n - 1)

RECURSIVE WindowOf(_, _, _)
\* counts[i] policies of status labels[i], for i = 1..k
WindowOf(labels, counts, k) ==
    IF k = 0 THEN <<>>
    ELSE WindowOf(labels, counts, k - 1)
            \o Repeat(RNARow(labels[k], Cell("ymd", 2026, 2, 1)), counts[k])

InitBreakdown ==
    /\ db = Idle /\ ui = Idle
    /\ env \in [now : {ScopedNow}, tz : {0}]
    /\ \E k \in 0..MaxStatuses, labels \in LabelLists, blanks \in 0..1 :
          \E counts \in [1..k -> CountChoices] :
              upload = [carrier |-> "RNA",
                        rows |-> WindowOf(labels, counts, k)
                                    \o Repeat(RNARow("", Cell("ymd", 2026, 2, 1)), blanks)]
    /\ analysis = NoAnalysis
    /\ pc = "breakdown"
    /\ probe = Idle /\ req = Idle
    /\ scopedPolicies = Idle /\ results = Idle /\ lapsePolicies = Idle /\ response = Idle

BreakdownRoyalNeighbors ==
    /\ pc = "breakdown" /\ ~analysis.done
    /\ analysis' = [done |-> TRUE,
                    breakdown |-> getRoyalNeighborsStatusBreakdownLimited(upload.rows)]
    /\ UNCHANGED <<db, ui, env, probe, upload, req, pc, scopedPolicies, results, lapsePolicies, response>>

NextBreakdown == BreakdownRoyalNeighbors

SpecBreakdown == InitBreakdown /\ [][NextBreakdown]_vars

BreakdownDone == pc = "breakdown" /\ analysis.done

\* the distinct non-blank statuses of the window and their counts
DistinctStatuses == {RNAStatus(upload.rows[i]) : i \in 1..Len(upload.rows)} \ {""}
StatusCount(status) == Count(upload.rows, LAMBDA p : RNAStatus(p) = status)

RECURSIVE SumStatusCounts(_)
SumStatusCounts(statuses) ==
    IF statuses = {} THEN 0
    ELSE LET l == CHOOSE x \in statuses : TRUE
         IN  StatusCount(l) + SumStatusCounts(statuses \ {l})

\* C12: the breakdown lists at most 7 statuses individually, 7 statuses of
\* highest count, each with its own count, and one entry Other holding the
\* sum of the counts of all remaining statuses; with at most 7 distinct
\* statuses every status is listed and no synthetic entry is added.
C12_TopSevenAndOther ==
    BreakdownDone =>
        LET b == analysis.breakdown
        IN  IF Cardinality(DistinctStatuses) <= TopStatuses
            THEN /\ DOMAIN b = DistinctStatuses
                 /\ \A l \in DOMAIN b : b[l].count = StatusCount(l)
            ELSE \E top \in SUBSET DistinctStatuses :
                    /\ Cardinality(top) = TopStatuses
                    /\ \A t \in top, r \in DistinctStatuses \ top : StatusCount(t) >= StatusCount(r)
                    /\ DOMAIN b = top \cup {"Other"}
                    /\ Cardinality(DOMAIN b) = TopStatuses + 1
                    /\ \A t \in top : b[t].count = StatusCount(t)
                    /\ b["Other"].count = SumStatusCounts(DistinctStatuses \ top)

\* the same for windows in which no raw status is named Other
C12_TopSevenAndOtherNoRawOther ==
    (BreakdownDone /\ "Other" \notin DistinctStatuses) =>
        LET b == analysis.breakdown
        IN  IF Cardinality(DistinctStatuses) <= TopStatuses
            THEN /\ DOMAIN b = DistinctStatuses
                 /\ \A l \in DOMAIN b : b[l].count = StatusCount(l)
            ELSE \E top \in SUBSET DistinctStatuses :
                    /\ Cardinality(top) = TopStatuses
                    /\ \A t \in top, r \in DistinctStatuses \ top : StatusCount(t) >= StatusCount(r)
                    /\ DOMAIN b = top \cup {"Other"}
                    /\ \A t \in top : b[t].count = StatusCount(t)
                    /\ b["Other"].count = SumStatusCounts(DistinctStatuses \ top)

RECURSIVE SumBreakdownCounts(_, _)
\* the sum of the counts of the entries of a breakdown under the given labels
SumBreakdownCounts(b, labels) ==
    IF labels = {} THEN 0
    ELSE LET l == CHOOSE x \in labels : TRUE
         IN  b[l].count + SumBreakdownCounts(b, labels \ {l})

NonBlankStatusPolicies == Count(upload.rows, LAMBDA p : RNAStatus(p) # "")

\* C29: the counts of the returned breakdown, individual labels plus Other,
\* sum to the number of policies of the window that have a non-blank status,
\* for every multiset of statuses, a raw status named Other among more than
\* 7 distinct statuses included.
C29_BreakdownCountsSumToWindow ==
    BreakdownDone =>
        SumBreakdownCounts(analysis.breakdown, DOMAIN analysis.breakdown)
            = NonBlankStatusPolicies

\* the same for windows in which no raw status is named Other
C29_CountsSumWithoutRawOther ==
    (BreakdownDone /\ "Other" \notin DistinctStatuses) =>
        SumBreakdownCounts(analysis.breakdown, DOMAIN analysis.breakdown)
            = NonBlankStatusPolicies

\* the same for windows of at most 7 distinct statuses, a raw Other or not
C29_CountsSumUpToSevenStatuses ==
    (BreakdownDone /\ Cardinality(DistinctStatuses) <= TopStatuses) =>
        SumBreakdownCounts(analysis.breakdown, DOMAIN analysis.breakdown)
            = NonBlankStatusPolicies

(***************************************************************************)
(* Specification SpecPost: one request to the analysis handler of          *)
(* src/app/api/analyze/route.ts.  The form carries at most one file per    *)
(* carrier key.  A file has a name that ends in .xlsx/.xls or not, a body  *)
(* the workbook reader can read or not, and its data rows under the        *)
(* header.  The handler runs its blocks in order and a raised error ends   *)
(* it in the catch clause.                                                 *)
(***************************************************************************)
PostKeys ==
    <<"american-amicable", "combined", "american-home-life", "royal-neighbors", "aflac", "aetna">>
PostFormKeys == {PostKeys[i] : i \in 1..Len(PostKeys)}
ExcelKeys == {"american-home-life", "aflac", "aetna"}

PostAMAMRows ==
    {ScopedAMAMRow(Wrapped(A1), "P1", "Act-Pastdue", Cell("mdy", 2026, 2, 1)),
     ScopedAMAMRow(Wrapped(A2), "", "IssNotPaid", Cell("mdy", 2025, 12, 1))}
PostCombinedRows ==
    {ScopedCombinedRow(A1, "K1", "In-Force", Cell("ymd", 2026, 2, 1)),
     ScopedCombinedRow(A2, "", "Lapse-Pending", Cell("ymd", 2025, 6, 1))}
PostRNARows ==
    {RNARow("CONTRACT ACTIVE", Cell("ymd", 2026, 2, 1)),
     RNARow("CON TERM LAPSED", BlankCell)}
PostXLSXRows ==
    {XLSXRow("Active", Cell("mdy", 2026, 2, 1)),
     XLSXRow("Lapsed", Cell("mdy", 2025, 6, 1))}

PostRowsOf(key) ==
    CASE key = "american-amicable" -> PostAMAMRows
      [] key = "combined"          -> PostCombinedRows
      [] key = "royal-neighbors"   -> PostRNARows
      [] OTHER                     -> PostXLSXRows

NoUpload == [present |-> FALSE, excel |-> FALSE, readable |-> TRUE, rows |-> <<>>]

PostRequestRows ==
    Len(req.files["american-amicable"].rows) + Len(req.files["combined"].rows)
    + Len(req.files["american-home-life"].rows) + Len(req.files["royal-neighbors"].rows)
    + Len(req.files["aflac"].rows) + Len(req.files["aetna"].rows)

InitPost ==
    /\ db = Idle /\ ui = Idle
    /\ env \in [now : {ScopedNow}, tz : {0}]
    /\ req = [files |-> [key \in PostFormKeys |-> NoUpload]]
    /\ pc = "choose"
    /\ scopedPolicies = Idle /\ results = <<>> /\ lapsePolicies = <<>>
    /\ response = Idle
    /\ probe = Idle /\ upload = Idle /\ analysis = Idle

\* formData.append(carrier, file): a text file of a CSV carrier
ChooseCSVFile ==
    /\ pc = "choose"
    /\ \E key \in PostFormKeys \ ExcelKeys :
          /\ ~req.files[key].present
          /\ \E rows \in SeqsUpTo(PostRowsOf(key), MaxRequestRows - PostRequestRows) :
                req' = [req EXCEPT !.files[key] =
                           [present |-> TRUE, excel |-> FALSE, readable |-> TRUE, rows |-> rows]]
    /\ UNCHANGED <<db, ui, env, probe, upload, analysis, pc, scopedPolicies, results, lapsePolicies, response>>

\* formData.append(carrier, file): a workbook, readable with its rows or not readable
ChooseWorkbook ==
    /\ pc = "choose"
    /\ \E key \in ExcelKeys :
          /\ ~req.files[key].present
          /\ \/ \E rows \in SeqsUpTo(PostRowsOf(key), MaxRequestRows - PostRequestRows) :
                   req' = [req EXCEPT !.files[key] =
                              [present |-> TRUE, excel |-> TRUE, readable |-> TRUE, rows |-> rows]]
             \/ req' = [req EXCEPT !.files[key] =
                           [present |-> TRUE, excel |-> TRUE, readable |-> FALSE, rows |-> <<>>]]
    /\ UNCHANGED <<db, ui, env, probe, upload, analysis, pc, scopedPolicies, results, lapsePolicies, response>>

\* formData.append(carrier, file): a text file under the key of a workbook carrier
ChooseTextForWorkbookKey ==
    /\ pc = "choose"
    /\ \E key \in ExcelKeys :
          /\ ~req.files[key].present
          /\ \E rows \in SeqsUpTo(PostRowsOf(key), MaxRequestRows - PostRequestRows) :
                req' = [req EXCEPT !.files[key] =
                           [present |-> TRUE, excel |-> FALSE, readable |-> TRUE, rows |-> rows]]
    /\ UNCHANGED <<db, ui, env, probe, upload, analysis, pc, scopedPolicies, results, lapsePolicies, response>>

SubmitPost ==
    /\ pc = "choose"
    /\ pc' = "post american-amicable"
    /\ UNCHANGED <<db, ui, env, probe, upload, analysis, req, scopedPolicies, results, lapsePolicies, response>>

\* the catch clause of the handler
ErrorResponse(message) == [status |-> 500, error |-> <<"Failed to analyze files: ", message>>]

Caught(message) ==
    /\ pc' = "done"
    /\ response' = ErrorResponse(message)
    /\ UNCHANGED <<results, lapsePolicies>>

PostAmericanAmicable ==
    /\ pc = "post american-amicable"
    /\ IF req.files["american-amicable"].present
       THEN LET policies == parseAMAMCSV(req.files["american-amicable"].rows)
            IN  /\ results' = Append(results, analyzeAmericanAmicable(policies, env.now))
                /\ \E draws \in [1..Len(policies) -> RandomDraws] :
                      lapsePolicies' = lapsePolicies \o extractLapsePoliciesFromAMAM(policies, draws)
       ELSE UNCHANGED <<results, lapsePolicies>>
    /\ pc' = "post combined"
    /\ UNCHANGED <<db, ui, env, probe, upload, analysis, req, scopedPolicies, response>>

PostCombined ==
    /\ pc = "post combined"
    /\ IF req.files["combined"].present
       THEN LET policies == req.files["combined"].rows
            IN  /\ results' = Append(results, analyzeCombined(policies, env.now))
                /\ \E draws \in [1..Len(policies) -> RandomDraws] :
                      lapsePolicies' = lapsePolicies \o extractLapsePoliciesFromCombined(policies, draws)
       ELSE UNCHANGED <<results, lapsePolicies>>
    /\ pc' = "post american-home-life"
    /\ UNCHANGED <<db, ui, env, probe, upload, analysis, req, scopedPolicies, response>>

\* the analysis of American Home Life: windows and breakdowns of the rows by
\* STATUSCATEGORY and ISSUEDATE, as for the other workbook carriers
analyzeAmericanHomeLifePolicies(policies, currentDate) ==
    [analyzeAetnaPolicies(policies, currentDate) EXCEPT !.carrier = "American Home Life"]

PostAmericanHomeLife ==
    /\ pc = "post american-home-life"
    /\ LET file == req.files["american-home-life"]
       IN  IF ~file.present
           THEN pc' = "post royal-neighbors" /\ UNCHANGED <<results, lapsePolicies, response>>
           ELSE IF file.excel /\ ~file.readable
           THEN Caught("workbook")
           ELSE /\ results' = Append(results, analyzeAmericanHomeLifePolicies(file.rows, env.now))
                /\ pc' = "post royal-neighbors"
                /\ UNCHANGED <<lapsePolicies, response>>
    /\ UNCHANGED <<db, ui, env, probe, upload, analysis, req, scopedPolicies>>

PostRoyalNeighbors ==
    /\ pc = "post royal-neighbors"
    /\ IF req.files["royal-neighbors"].present
       THEN results' = Append(results, analyzeRoyalNeighbors(req.files["royal-neighbors"].rows, env.now))
       ELSE UNCHANGED results
    /\ pc' = "post aflac"
    /\ UNCHANGED <<db, ui, env, probe, upload, analysis, req, scopedPolicies, lapsePolicies, response>>

\* the Aflac block also pushing a lapse candidate for every lapsed row
PostAflacExtractingLapse ==
    /\ pc = "post aflac"
    /\ LET file == req.files["aflac"]
       IN  IF ~file.present \/ ~file.excel
           THEN pc' = "post aetna" /\ UNCHANGED <<results, lapsePolicies, response>>
           ELSE IF ~file.readable
           THEN Caught("workbook")
           ELSE /\ results' = Append(results, analyzeAflacPolicies(file.rows, env.now))
                /\ lapsePolicies' = lapsePolicies \o
                       Map(SelectSeq(file.rows, LAMBDA p : p.STATUSCATEGORY = "Lapsed"),
                           LAMBDA p : LapseCandidate(<<"", 0>>, "Aflac", "", "", "null",
                                                     <<p.STATUSCATEGORY>>))
                /\ pc' = "post aetna"
                /\ UNCHANGED response
    /\ UNCHANGED <<db, ui, env, probe, upload, analysis, req, scopedPolicies>>

PostAflac ==
    /\ pc = "post aflac"
    /\ LET file == req.files["aflac"]
       IN  IF ~file.present \/ ~file.excel
           THEN pc' = "post aetna" /\ UNCHANGED <<results, lapsePolicies, response>>
           ELSE IF ~file.readable
           THEN Caught("workbook")
           ELSE /\ results' = Append(results, analyzeAflacPolicies(file.rows, env.now))
                /\ pc' = "post aetna"
                /\ UNCHANGED <<lapsePolicies, response>>
    /\ UNCHANGED <<db, ui, env, probe, upload, analysis, req, scopedPolicies>>

PostAetna ==
    /\ pc = "post aetna"
    /\ LET file == req.files["aetna"]
       IN  IF ~file.present \/ ~file.excel
           THEN pc' = "post respond" /\ UNCHANGED <<results, lapsePolicies, response>>
           ELSE IF ~file.readable
           THEN Caught("workbook")
           ELSE /\ results' = Append(results, analyzeAetnaPolicies(file.rows, env.now))
                /\ pc' = "post respond"
                /\ UNCHANGED <<lapsePolicies, response>>
    /\ UNCHANGED <<db, ui, env, probe, upload, analysis, req, scopedPolicies>>

\* the handler answering an empty request with an empty success
PostRespondEmptySuccess ==
    /\ pc = "post respond" /\ Len(results) = 0
    /\ pc' = "done"
    /\ response' = [status |-> 200, results |-> results, lapsePolicies |-> lapsePolicies]
    /\ UNCHANGED <<db, ui, env, probe, upload, analysis, req, scopedPolicies, results, lapsePolicies>>

PostRespondNoFiles ==
    /\ pc = "post respond" /\ Len(results) = 0
    /\ pc' = "done"
    /\ response' = [status |-> 400, error |-> "No files provided"]
    /\ UNCHANGED <<db, ui, env, probe, upload, analysis, req, scopedPolicies, results, lapsePolicies>>

PostRespond ==
    /\ pc = "post respond" /\ Len(results) # 0
    /\ pc' = "done"
    /\ response' = [status |-> 200, results |-> results, lapsePolicies |-> lapsePolicies]
    /\ UNCHANGED <<db, ui, env, probe, upload, analysis, req, scopedPolicies, results, lapsePolicies>>

NextPost ==
    \/ ChooseCSVFile
    \/ ChooseWorkbook
    \/ ChooseTextForWorkbookKey
    \/ SubmitPost
    \/ PostAmericanAmicable
    \/ PostCombined
    \/ PostAmericanHomeLife
    \/ PostRoyalNeighbors
    \/ PostAflac
    \/ PostAetna
    \/ PostRespondNoFiles
    \/ PostRespond

SpecPost == InitPost /\ [][NextPost]_vars

(***************************************************************************)
(* Claims about the analysis handler.                                      *)
(***************************************************************************)
PostResultName(key) ==
    CASE key = "american-amicable"  -> "American Amicable"
      [] key = "combined"           -> "Combined Insurance"
      [] key = "american-home-life" -> "American Home Life"
      [] key = "royal-neighbors"    -> "Royal Neighbors of America"
      [] key = "aflac"              -> "Aflac"
      [] OTHER                      -> "Aetna"

\* a supplied file whose reading raises an error
MalformedUpload(key) == req.files[key].present /\ ~req.files[key].readable

\* a supplied file in the format its carrier's block accepts
WellFormedUpload(key) ==
    /\ req.files[key].present /\ req.files[key].readable
    /\ key \in {"aflac", "aetna"} => req.files[key].excel

ReturnsResultOf(key) ==
    /\ response.status = 200
    /\ \E i \in 1..Len(response.results) : response.results[i].carrier = PostResultName(key)

\* C14: when the file of one carrier is malformed, the results of every other
\* carrier supplied in the same request are still returned.
C14_MalformedFileIsolated ==
    (pc = "done" /\ \E bad \in PostFormKeys : MalformedUpload(bad))
        => \A key \in PostFormKeys : WellFormedUpload(key) => ReturnsResultOf(key)

\* without a malformed file every well-formed file has its result returned
C14_ResultsWithoutMalformedFile ==
    (pc = "done" /\ \A bad \in PostFormKeys : ~MalformedUpload(bad))
        => \A key \in PostFormKeys : WellFormedUpload(key) => ReturnsResultOf(key)

NoFilesSupplied == \A key \in PostFormKeys : ~req.files[key].present

\* C16: a request without any carrier file fails as a whole with the single
\* error 'No files provided' and returns no results.
C16_NoFilesProvided ==
    (pc = "done" /\ NoFilesSupplied)
        => response = [status |-> 400, error |-> "No files provided"]

C16_Witness == pc = "done" /\ NoFilesSupplied /\ response.status = 400

\* the block of the handler that processes the file under a key
BlockOf(key) ==
    CASE key = "american-amicable"  -> "post american-amicable"
      [] key = "combined"           -> "post combined"
      [] key = "american-home-life" -> "post american-home-life"
      [] key = "royal-neighbors"    -> "post royal-neighbors"
      [] key = "aflac"              -> "post aflac"
      [] OTHER                      -> "post aetna"

\* the carriers whose analysis is in the source
AnalysedKeys == PostFormKeys \ {"american-home-life"}

\* a supplied file in its carrier's format with a header and no data rows
EmptyUpload(key) == WellFormedUpload(key) /\ req.files[key].rows = <<>>

ZeroResult(result, key) ==
    /\ result.carrier = PostResultName(key)
    /\ result.totalPolicies = 0
    /\ \A range \in Ranges :
          /\ result.timeRanges[range] = [positivePercentage |-> 0, positiveCount |-> 0,
                                         negativePercentage |-> 0, negativeCount |-> 0]
          /\ \A l \in DOMAIN result.statusBreakdowns[range] :
                result.statusBreakdowns[range][l].percentage = 0

\* C17: a carrier file with a header row and no data rows is analysed
\* successfully.  Its block does not end the request and appends the carrier's
\* result with totalPolicies 0, all counts 0 and all percentages 0, and a
\* successful response carries that result.
C17_EmptyFileAnalysed ==
    /\ [][\A key \in AnalysedKeys :
            (pc = BlockOf(key) /\ EmptyUpload(key))
                => /\ pc' # "done"
                   /\ Len(results') = Len(results) + 1
                   /\ ZeroResult(results'[Len(results')], key)]_vars
    /\ [](\A key \in AnalysedKeys :
            (pc = "done" /\ EmptyUpload(key) /\ response.status = 200)
                => \E i \in 1..Len(response.results) : ZeroResult(response.results[i], key))

C17_Witness ==
    /\ pc = "done" /\ response.status = 200
    /\ EmptyUpload("american-amicable") /\ EmptyUpload("aetna")
    /\ Len(response.results) = 2

NoSignalKeys == {"american-home-life", "royal-neighbors", "aflac", "aetna"}

HasLapsedRow(key) ==
    /\ req.files[key].present /\ req.files[key].excel /\ req.files[key].readable
    /\ \E i \in 1..Len(req.files[key].rows) : req.files[key].rows[i].STATUSCATEGORY = "Lapsed"

TextUnderWorkbookKey(key) ==
    key \in {"aflac", "aetna"} /\ req.files[key].present /\ ~req.files[key].excel

AnswersNoFilesProvided == pc = "done" /\ response.status = 400

\* C30: a request that supplies at least one carrier file under a recognised
\* key is never answered with the error 'No files provided': the answer is
\* the results or an error about the file, an Aflac or Aetna file that is not
\* in Excel format included.
C30_FileSuppliedNeverNoFilesProvided ==
    (pc = "done" /\ ~NoFilesSupplied) => ~AnswersNoFilesProvided

\* the same for requests whose Aflac and Aetna files, if any, are named as workbooks
C30_NeverNoFilesProvidedWithWorkbookNames ==
    (pc = "done" /\ ~NoFilesSupplied /\ \A key \in PostFormKeys : ~TextUnderWorkbookKey(key))
        => ~AnswersNoFilesProvided

\* 'No files provided' answers exactly the requests in which every supplied
\* file is an Aflac or Aetna file not named as a workbook
C30_NoFilesProvidedIffOnlySkippedFiles ==
    pc = "done" =>
        (AnswersNoFilesProvided
            <=> \A key \in PostFormKeys : req.files[key].present => TextUnderWorkbookKey(key))

(***************************************************************************)
(* The lapse table (src/components/LapseTable.tsx).                        *)
(***************************************************************************)
\* deriveActionAndSeverity testing the payment rule before the lapse rule
deriveActionAndSeverityPaymentFirst(statuses) ==
    IF Includes(statuses, "Act-Pastdue") \/ Includes(statuses, "IssNotPaid")
    THEN [action |-> "Notify client to pay outstanding premium", severity |-> "high"]
    ELSE IF Includes(statuses, "Lapse-Pending")
    THEN [action |-> "Policy is about to lapse - contact client immediately",
          severity |-> "critical"]
    ELSE IF Includes(statuses, "Pending") \/ Includes(statuses, "NeedReqmnt")
    THEN [action |-> "Missing information - review with carrier to determine next steps",
          severity |-> "medium"]
    ELSE [action |-> "Monitor", severity |-> "low"]

deriveActionAndSeverity(statuses) ==
    IF Includes(statuses, "Lapse-Pending")
    THEN [action |-> "Policy is about to lapse - contact client immediately",
          severity |-> "critical"]
    ELSE IF Includes(statuses, "Act-Pastdue") \/ Includes(statuses, "IssNotPaid")
    THEN [action |-> "Notify client to pay outstanding premium", severity |-> "high"]
    ELSE IF Includes(statuses, "Pending") \/ Includes(statuses, "NeedReqmnt")
    THEN [action |-> "Missing information - review with carrier to determine next steps",
          severity |-> "medium"]
    ELSE [action |-> "Monitor", severity |-> "low"]

severityOrder == [critical |-> 0, high |-> 1, medium |-> 2, low |-> 3]

(***************************************************************************)
(* Specification SpecDerive: deriveActionAndSeverity on one status list.   *)
(***************************************************************************)
MaxStatusList == 3

LapseStatuses ==
    {"Lapse-Pending", "Act-Pastdue", "IssNotPaid", "Pending", "NeedReqmnt", "Active"}

InitDerive ==
    /\ db = Idle /\ ui = Idle
    /\ env \in [now : {ScopedNow}, tz : {0}]
    /\ probe \in [statuses : SeqsUpTo(LapseStatuses, MaxStatusList), out : {NoAnalysis}]
    /\ pc = "derive"
    /\ upload = Idle /\ analysis = Idle /\ req = Idle
    /\ scopedPolicies = Idle /\ results = Idle /\ lapsePolicies = Idle /\ response = Idle

Derive ==
    /\ pc = "derive" /\ ~probe.out.done
    /\ probe' = [probe EXCEPT !.out = [done |-> TRUE, result |-> deriveActionAndSeverity(probe.statuses)]]
    /\ UNCHANGED <<db, ui, env, upload, analysis, req, pc, scopedPolicies, results, lapsePolicies, response>>

NextDerive == Derive

SpecDerive == InitDerive /\ [][NextDerive]_vars

\* the rule table, in the order of the source
Rules ==
    <<[match |-> {"Lapse-Pending"}, severity |-> "critical",
       action |-> "Policy is about to lapse - contact client immediately"],
      [match |-> {"Act-Pastdue", "IssNotPaid"}, severity |-> "high",
       action |-> "Notify client to pay outstanding premium"],
      [match |-> {"Pending", "NeedReqmnt"}, severity |-> "medium",
       action |-> "Missing information - review with carrier to determine next steps"]>>

Matching(statuses) ==
    {i \in 1..Len(Rules) : \E j \in 1..Len(statuses) : statuses[j] \in Rules[i].match}

\* C18: the result is that of the earliest rule a status of the list matches
\* (critical before high before medium), and severity low with the action
\* Monitor when no rule matches.
C18_FirstMatchingRuleWins ==
    (pc = "derive" /\ probe.out.done) =>
        LET hits == Matching(probe.statuses)
            out  == probe.out.result
        IN  IF hits = {}
            THEN out = [action |-> "Monitor", severity |-> "low"]
            ELSE LET first == CHOOSE i \in hits : \A k \in hits : i <= k
                 IN  out = [action |-> Rules[first].action, severity |-> Rules[first].severity]

C18_Witness ==
    /\ pc = "derive" /\ probe.out.done
    /\ Cardinality(Matching(probe.statuses)) = 3
    /\ probe.statuses[1] = "Pending"
    /\ probe.out.result.severity = "critical"

(***************************************************************************)
(* Specification SpecLapseTable: the table sorts the policies it is given. *)
(***************************************************************************)
MaxTablePolicies == 3

\* numbers of the comparator: finite, Infinity, -Infinity or NaN
Infinity == [kind |-> "Infinity", n |-> 0]
Finite(n) == [kind |-> "finite", n |-> n]

\* daysToLapse ?? 0
DaysOrZero(daysToLapse) ==
    IF daysToLapse.known THEN Finite(daysToLapse.days) ELSE Finite(0)

\* daysToLapse ?? Infinity
DaysOrInfinity(daysToLapse) ==
    IF daysToLapse.known THEN Finite(daysToLapse.days) ELSE Infinity

\* a - b
Minus(a, b) ==
    IF a.kind = "finite" /\ b.kind = "finite" THEN Finite(a.n - b.n)
    ELSE IF a.kind = "Infinity" /\ b.kind = "Infinity" THEN [kind |-> "NaN", n |-> 0]
    ELSE IF a.kind = "Infinity" THEN Infinity
    ELSE [kind |-> "-Infinity", n |-> 0]

\* the comparator handed to sort
comparePolicies(a, b) ==
    LET aResult == deriveActionAndSeverity(a.statuses)
        bResult == deriveActionAndSeverity(b.statuses)
        severityDiff == severityOrder[aResult.severity] - severityOrder[bResult.severity]
    IN  IF severityDiff # 0 THEN Finite(severityDiff)
        ELSE Minus(DaysOrInfinity(a.daysToLapse), DaysOrInfinity(b.daysToLapse))

\* Array.prototype.sort reads a comparator result by its sign, NaN as +0
ComesAfter(a, b) ==
    LET v == comparePolicies(a, b)
    IN  \/ v.kind = "Infinity"
        \/ v.kind = "finite" /\ v.n > 0

\* Array.prototype.sort is stable: equal elements keep their input order
RECURSIVE InsertPolicy(_, _)
InsertPolicy(sorted, p) ==
    IF sorted = <<>> THEN <<p>>
    ELSE IF ComesAfter(sorted[Len(sorted)], p)
         THEN Append(InsertPolicy(SubSeq(sorted, 1, Len(sorted) - 1), p), sorted[Len(sorted)])
         ELSE Append(sorted, p)

RECURSIVE sortedPolicies(_)
sortedPolicies(policies) ==
    IF policies = <<>> THEN <<>>
    ELSE InsertPolicy(sortedPolicies(SubSeq(policies, 1, Len(policies) - 1)),
                      policies[Len(policies)])

TableStatuses ==
    {<<"Lapse-Pending">>, <<"Act-Pastdue">>, <<"Pending">>, <<"Active">>,
     <<"Pending", "Lapse-Pending">>}

TableDays == {NullDays, KnownDays(5), KnownDays(30)}

TablePolicies ==
    {LapseCandidate(<<"policy", 1>>, "American Amicable", "Ann", "Lee", "null", s)
        : s \in TableStatuses}
    \cup
    {[LapseCandidate(<<"policy", 1>>, "Combined", "Ann", "Lee", "null", s)
        EXCEPT !.daysToLapse = d] : s \in TableStatuses, d \in TableDays}

InitLapseTable ==
    /\ db = Idle /\ ui = Idle
    /\ env \in [now : {ScopedNow}, tz : {0}]
    /\ upload \in [policies : SeqsUpTo(TablePolicies, MaxTablePolicies)]
    /\ analysis = NoAnalysis
    /\ pc = "table"
    /\ probe = Idle /\ req = Idle
    /\ scopedPolicies = Idle /\ results = Idle /\ lapsePolicies = Idle /\ response = Idle

LapseTable ==
    /\ pc = "table" /\ ~analysis.done
    /\ analysis' = [done |-> TRUE, rows |-> sortedPolicies(upload.policies)]
    /\ UNCHANGED <<db, ui, env, probe, upload, req, pc, scopedPolicies, results, lapsePolicies, response>>

NextLapseTable == LapseTable

SpecLapseTable == InitLapseTable /\ [][NextLapseTable]_vars

Occurrences(seq, p) == Cardinality({i \in 1..Len(seq) : seq[i] = p})

SeverityRank(p) ==
    CHOOSE r \in 0..3 :
        \E i \in 1..Len(Rules) + 1 :
            /\ r = i - 1
            /\ IF i <= Len(Rules) THEN i \in Matching(p.statuses) ELSE TRUE
            /\ \A k \in 1..(i - 1) : k \notin Matching(p.statuses)

\* C19: the rows shown are a permutation of the policies given, ordered by
\* severity (critical, high, medium, low) and, within one severity, by
\* ascending daysToLapse with the policies whose daysToLapse is null last.
C19_SortedBySeverityThenDays ==
    (pc = "table" /\ analysis.done) =>
        LET rows == analysis.rows
        IN  /\ Len(rows) = Len(upload.policies)
            /\ \A p \in TablePolicies : Occurrences(rows, p) = Occurrences(upload.policies, p)
            /\ \A i, j \in 1..Len(rows) :
                  i < j =>
                     /\ SeverityRank(rows[i]) <= SeverityRank(rows[j])
                     /\ SeverityRank(rows[i]) = SeverityRank(rows[j]) =>
                           /\ ~rows[i].daysToLapse.known => ~rows[j].daysToLapse.known
                           /\ (rows[i].daysToLapse.known /\ rows[j].daysToLapse.known) =>
                                 rows[i].daysToLapse.days <= rows[j].daysToLapse.days

C19_Witness ==
    /\ pc = "table" /\ analysis.done
    /\ Len(upload.policies) = 3
    /\ ~upload.policies[1].daysToLapse.known
    /\ upload.policies[2].daysToLapse = KnownDays(30)
    /\ upload.policies[3].daysToLapse = KnownDays(5)
    /\ SeverityRank(upload.policies[1]) = 1
    /\ SeverityRank(upload.policies[2]) = 1
    /\ SeverityRank(upload.policies[3]) = 1
    /\ analysis.rows = <<upload.policies[3], upload.policies[2], upload.policies[1]>>

(***************************************************************************)
(* Specification SpecParse: one calendar day, written in each encoding,    *)
(* and one cell without a date, handed to one carrier's date parser.       *)
(***************************************************************************)
Parsers ==
    {"parseAMAMDate", "parseCombinedDate", "parseRoyalNeighborsDate", "parseAetnaDate",
     "parseAflacDate", "parseAflacDate (scoped)", "parseAetnaDate (scoped)"}

ParseDays ==
    {<<2022, 1, 1>>, <<2022, 1, 31>>, <<2024, 2, 29>>, <<2025, 12, 31>>, <<2026, 3, 1>>}

DatelessCells == {BlankCell, MissingCell, NACell}

InitParse ==
    /\ db = Idle /\ ui = Idle
    /\ env \in [now : {0}, tz : TzShifts]
    /\ probe \in [parser : Parsers, day : ParseDays, dateless : DatelessCells, out : {NoAnalysis}]
    /\ pc = "parse"
    /\ upload = Idle /\ analysis = Idle /\ req = Idle
    /\ scopedPolicies = Idle /\ results = Idle /\ lapsePolicies = Idle /\ response = Idle

DayCell(fmt) == Cell(fmt, probe.day[1], probe.day[2], probe.day[3])

ParsedCells(serial, ymd, mdy, dateless) ==
    /\ probe' = [probe EXCEPT !.out = [done |-> TRUE, serial |-> serial, ymd |-> ymd,
                                       mdy |-> mdy, dateless |-> dateless]]
    /\ UNCHANGED <<db, ui, env, upload, analysis, req, pc, scopedPolicies, results, lapsePolicies, response>>

ParseAMAM ==
    /\ pc = "parse" /\ ~probe.out.done /\ probe.parser = "parseAMAMDate"
    /\ ParsedCells(parseAMAMDate(DayCell("serial")), parseAMAMDate(DayCell("ymd")),
                   parseAMAMDate(DayCell("mdy")), parseAMAMDate(probe.dateless))

ParseCombined ==
    /\ pc = "parse" /\ ~probe.out.done /\ probe.parser = "parseCombinedDate"
    /\ ParsedCells(parseCombinedDate(DayCell("serial")), parseCombinedDate(DayCell("ymd")),
                   parseCombinedDate(DayCell("mdy")), parseCombinedDate(probe.dateless))

ParseRoyalNeighbors ==
    /\ pc = "parse" /\ ~probe.out.done /\ probe.parser = "parseRoyalNeighborsDate"
    /\ ParsedCells(parseRoyalNeighborsDate(DayCell("serial")),
                   parseRoyalNeighborsDate(DayCell("ymd")),
                   parseRoyalNeighborsDate(DayCell("mdy")),
                   parseRoyalNeighborsDate(probe.dateless))

ParseAetna ==
    /\ pc = "parse" /\ ~probe.out.done /\ probe.parser = "parseAetnaDate"
    /\ ParsedCells(parseAetnaDate(DayCell("serial")), parseAetnaDate(DayCell("ymd")),
                   parseAetnaDate(DayCell("mdy")), parseAetnaDate(probe.dateless))

ParseAflac ==
    /\ pc = "parse" /\ ~probe.out.done /\ probe.parser = "parseAflacDate"
    /\ ParsedCells(parseAflacDateRoute(DayCell("serial")), parseAflacDateRoute(DayCell("ymd")),
                   parseAflacDateRoute(DayCell("mdy")), parseAflacDateRoute(probe.dateless))

ParseAflacScoped ==
    /\ pc = "parse" /\ ~probe.out.done /\ probe.parser = "parseAflacDate (scoped)"
    /\ ParsedCells(parseAflacDate(DayCell("serial"), env.tz), parseAflacDate(DayCell("ymd"), env.tz),
                   parseAflacDate(DayCell("mdy"), env.tz), parseAflacDate(probe.dateless, env.tz))

ParseAetnaScoped ==
    /\ pc = "parse" /\ ~probe.out.done /\ probe.parser = "parseAetnaDate (scoped)"
    /\ ParsedCells(parseAetnaDateXLSX(DayCell("serial"), env.tz),
                   parseAetnaDateXLSX(DayCell("ymd"), env.tz),
                   parseAetnaDateXLSX(DayCell("mdy"), env.tz),
                   parseAetnaDateXLSX(probe.dateless, env.tz))

NextParse ==
    \/ ParseAMAM
    \/ ParseCombined
    \/ ParseRoyalNeighbors
    \/ ParseAetna
    \/ ParseAflac
    \/ ParseAflacScoped
    \/ ParseAetnaScoped

SpecParse == InitParse /\ [][NextParse]_vars

ParseDone == pc = "parse" /\ probe.out.done

\* the parser returned a Date that reads as the given calendar day
ReadsAs(outcome, day) ==
    /\ outcome.kind = "date" /\ outcome.date.ok
    /\ getFullYear(outcome.date) = day[1]
    /\ getMonth(outcome.date) + 1 = day[2]
    /\ getDate(outcome.date) = day[3]

\* C21: whichever carrier's parser is used, the spreadsheet serial of a day
\* (a number above 59, counted from 1899-12-30), its YYYY-MM-DD text and its
\* MM/DD/YYYY text all parse to that calendar day.
C21_EncodingsAgree ==
    ParseDone =>
        /\ SerialOf(DayCell("serial")) > 59
        /\ ReadsAs(probe.out.serial, probe.day)
        /\ ReadsAs(probe.out.ymd, probe.day)
        /\ ReadsAs(probe.out.mdy, probe.day)

\* what the Aetna and Aflac parsers of route.ts do satisfy: both text
\* encodings parse to the calendar day
C21_TextEncodingsAgreeInRoute ==
    (ParseDone /\ probe.parser \in {"parseAetnaDate", "parseAflacDate", "parseRoyalNeighborsDate"}) =>
        /\ ReadsAs(probe.out.ymd, probe.day)
        /\ ReadsAs(probe.out.mdy, probe.day)

\* C22: a blank, absent or unparseable date makes every carrier's parser
\* fail explicitly (an exception or null); it never returns an Invalid Date.
C22_UnparseableFailsExplicitly ==
    ParseDone =>
        /\ probe.out.dateless.kind \in {"throw", "null"}
        /\ \A o \in {probe.out.serial, probe.out.ymd, probe.out.mdy} :
              o.kind = "date" => o.date.ok

\* the parsers that do fail explicitly on a cell without a date
C22_ExplicitFailureInGuardedParsers ==
    (ParseDone /\ probe.parser \notin {"parseAMAMDate", "parseCombinedDate", "parseRoyalNeighborsDate"}) =>
        probe.out.dateless.kind \in {"throw", "null"}

(***************************************************************************)
(* Specification SpecFilter: the agent-scope filter of the scoped handler  *)
(* applied to a policy list, and again to what it returned.                *)
(***************************************************************************)
MaxFilterRows == 3
MaxApplications == 2

\* a filter that also drops the first row it keeps
filterPoliciesDroppingFirst(policies, mode, numbers) ==
    IF mode # Undefined /\ Len(numbers) > 0
    THEN LET kept == SelectSeq(policies,
                         LAMBDA p : shouldIncludePolicy(p.WritingAgent, mode, numbers))
         IN  IF kept = <<>> THEN kept ELSE Tail(kept)
    ELSE policies

\* if (filterMode && writingAgentNumbers.length > 0)
\*     policies = policies.filter(p => shouldIncludePolicy(p.WritingAgent))
filterPolicies(policies, mode, numbers) ==
    IF mode # Undefined /\ Len(numbers) > 0
    THEN SelectSeq(policies, LAMBDA p : shouldIncludePolicy(p.WritingAgent, mode, numbers))
    ELSE policies

InitFilter ==
    /\ db = Idle /\ ui = Idle
    /\ env \in [now : {ScopedNow}, tz : {0}]
    /\ \E fields \in FilterFields, rows \in SeqsUpTo(ScopedAMAMRows, MaxFilterRows) :
          /\ req = [rows |-> rows, filter_mode |-> fields.filter_mode,
                    writing_agent_numbers |-> fields.writing_agent_numbers]
          /\ scopedPolicies = parseAMAMCSV(rows)
    /\ upload = [applied |-> 0]
    /\ pc = "filter"
    /\ probe = Idle /\ analysis = Idle
    /\ results = Idle /\ lapsePolicies = Idle /\ response = Idle

FilterPolicies ==
    /\ pc = "filter" /\ upload.applied < MaxApplications
    /\ scopedPolicies' = filterPolicies(scopedPolicies, filterMode, writingAgentNumbers)
    /\ upload' = [applied |-> upload.applied + 1]
    /\ UNCHANGED <<db, ui, env, probe, analysis, req, pc, results, lapsePolicies, response>>

NextFilter == FilterPolicies

SpecFilter == InitFilter /\ [][NextFilter]_vars

\* C23: applying the filter, with the same mode and allow-list, to a list it
\* has already filtered returns that list unchanged.
C23_FilterIdempotent ==
    [][(pc = "filter" /\ upload.applied >= 1) => scopedPolicies' = scopedPolicies]_vars

C23_Witness ==
    /\ pc = "filter" /\ upload.applied = 2
    /\ Filtering
    /\ Len(scopedPolicies) > 0
    /\ Len(scopedPolicies) < Len(req.rows)

(***************************************************************************)
(* Specification SpecInvite: an upline creates invitations (POST of the    *)
(* invitation route) and invited agents open the signup page and sign up   *)
(* (src/app/auth/agent/signup/page.tsx).  db holds the tables, req the     *)
(* creation requests that were answered with an invitation, ui the signup  *)
(* page.                                                                   *)
(***************************************************************************)
MaxInvitations == 2

Owner == "owner"
Emails == {"ann@x.io", "bo@x.io"}
WritingAgentIds == {"wa1", "wa2"}
Passwords == {"secret1", "short", "mismatch"}

NoInvitation == [id |-> 0, email |-> "", upline_id |-> "", token |-> 0, status |-> "none",
                 expired |-> FALSE]

InitInvite ==
    /\ db = [invitations |-> {},
             profiles |-> {[id |-> Owner, email |-> "owner@x.io", upline_id |-> "",
                            role |-> "agency_owner"]},
             agent_assignments |-> {}]
    /\ ui = [invitation |-> NoInvitation, error |-> "none"]
    /\ req = {}
    /\ response = Idle
    /\ pc = "invite"
    /\ env \in [now : {0}, tz : {0}]
    /\ probe = Idle /\ upload = Idle /\ analysis = Idle
    /\ scopedPolicies = Idle /\ results = Idle /\ lapsePolicies = Idle

\* POST: the invitation row is inserted; writing_agent_ids is read from the
\* body and stored nowhere (the update that follows carries no column)
CreateInvitation ==
    /\ pc = "invite"
    /\ Cardinality(db.invitations) < MaxInvitations
    /\ \E email \in Emails, writing_agent_ids \in SUBSET WritingAgentIds,
          upline_id \in {p.id : p \in db.profiles} :
          IF \E i \in db.invitations : i.email = email /\ i.status = "pending"
          THEN /\ response' = [status |-> 400, error |-> "User already invited"]
               /\ UNCHANGED <<db, req>>
          ELSE IF \E p \in db.profiles : p.email = email
          THEN /\ response' = [status |-> 400, error |-> "User already registered"]
               /\ UNCHANGED <<db, req>>
          ELSE LET token == Cardinality(db.invitations) + 1
                   invitation == [id |-> token, email |-> email, upline_id |-> upline_id,
                                  token |-> token, status |-> "pending", expired |-> FALSE]
               IN  /\ db' = [db EXCEPT !.invitations = @ \cup {invitation}]
                   /\ req' = req \cup {[token |-> token, email |-> email,
                                        writing_agent_ids |-> writing_agent_ids]}
                   /\ response' = [status |-> 200, error |-> "none"]
    /\ UNCHANGED <<ui, env, probe, upload, analysis, pc, scopedPolicies, results, lapsePolicies>>

\* seven days pass since an invitation was created
InvitationExpires ==
    /\ pc = "invite"
    /\ \E i \in db.invitations :
          /\ ~i.expired
          /\ db' = [db EXCEPT !.invitations = (@ \ {i}) \cup {[i EXCEPT !.expired = TRUE]}]
    /\ UNCHANGED <<ui, env, probe, upload, analysis, req, pc, scopedPolicies, results,
                   lapsePolicies, response>>

\* the signup page is opened with a token and verifies it
verifyInvitation ==
    /\ pc = "invite"
    /\ \E token \in 0..MaxInvitations :
          LET found == {i \in db.invitations : i.token = token /\ i.status = "pending"}
          IN  IF token = 0
              THEN ui' = [invitation |-> NoInvitation, error |-> "Invalid invitation link"]
              ELSE IF found = {}
              THEN ui' = [invitation |-> NoInvitation,
                          error |-> "Invitation not found or already used"]
              ELSE LET data == CHOOSE i \in found : TRUE
                   IN  IF data.expired
                       THEN ui' = [invitation |-> NoInvitation, error |-> "Invitation has expired"]
                       ELSE ui' = [invitation |-> data, error |-> "none"]
    /\ UNCHANGED <<db, env, probe, upload, analysis, req, pc, scopedPolicies, results,
                   lapsePolicies, response>>

\* the signup form is submitted: auth.signUp, profile insert, invitation update
handleSignup ==
    /\ pc = "invite"
    /\ ui.invitation.status = "pending"
    /\ \E password \in Passwords :
          LET invitation == ui.invitation
          IN  IF password = "mismatch"
              THEN ui' = [ui EXCEPT !.error = "Passwords do not match"] /\ UNCHANGED db
              ELSE IF password = "short"
              THEN ui' = [ui EXCEPT !.error = "Password must be at least 6 characters"]
                   /\ UNCHANGED db
              ELSE IF \E p \in db.profiles : p.email = invitation.email
              THEN ui' = [ui EXCEPT !.error = "User already registered"] /\ UNCHANGED db
              ELSE /\ db' = [db EXCEPT
                         !.profiles = @ \cup {[id |-> invitation.email,
                                               email |-> invitation.email,
                                               upline_id |-> invitation.upline_id,
                                               role |-> "agent"]},
                         !.invitations = {IF i.id = invitation.id
                                          THEN [i EXCEPT !.status = "accepted"] ELSE i : i \in @}]
                   /\ ui' = [invitation |-> NoInvitation, error |-> "none"]
    /\ UNCHANGED <<env, probe, upload, analysis, req, pc, scopedPolicies, results,
                   lapsePolicies, response>>

NextInvite ==
    \/ CreateInvitation
    \/ InvitationExpires
    \/ verifyInvitation
    \/ handleSignup

SpecInvite == InitInvite /\ [][NextInvite]_vars

AssignmentsOf(profile_id) == {a.writing_agent_id : a \in {b \in db.agent_assignments : b.profile_id = profile_id}}

\* C25: once the invited agent has signed up with the token of an invitation
\* created with the writing agents W, the new profile's agent_assignments
\* are exactly W and the invitation is accepted.
C25_SignupLinksAssignedWritingAgents ==
    pc = "invite" =>
        /\ \A p \in db.profiles :
              p.role = "agent" =>
                 \E i \in db.invitations : i.email = p.email /\ i.status = "accepted"
        /\ \A r \in req :
              (\E i \in db.invitations : i.token = r.token /\ i.status = "accepted") =>
                  \E p \in db.profiles :
                      /\ p.email = r.email /\ p.role = "agent"
                      /\ AssignmentsOf(p.id) = r.writing_agent_ids

\* what signup does establish: the profile hangs under the invitation's
\* upline and the invitation is accepted
C25_SignupLinksUplineAndAccepts ==
    pc = "invite" =>
        \A r \in req :
            \A p \in db.profiles :
                (p.email = r.email /\ p.role = "agent") =>
                    \E i \in db.invitations :
                        /\ i.email = r.email /\ i.status = "accepted"
                        /\ p.upline_id = i.upline_id

(***************************************************************************)
(* Specification SpecUpload: the agency owner uploads carrier documents    *)
(* (src/app/api/documents/upload/route.ts) and writing agents are assigned *)
(* to profiles (src/unnamed/part_008).  db holds carrier_documents,        *)
(* writing_agents and agent_assignments; req is the last upload request.   *)
(***************************************************************************)
MaxUploads == 2
MaxUploadRows == 2

UploadCarriers == {"American Amicable", "Combined"}
Profiles == {"owner", "agent1"}

UploadAMAMRow(agent, name, policy, status) ==
    [WritingAgent |-> agent, AgentName |-> name, Policy |-> policy, FirstName |-> "Ann",
     LastName |-> "Lee", Phone |-> Undefined, Status |-> status,
     PolicyDate |-> Cell("mdy", 2026, 2, 1), PaidtoDate |-> PaidTo]

UploadAMAMRows ==
    {UploadAMAMRow(Wrapped(A1), "Al", "P1", "Active"),
     UploadAMAMRow(FormulaText(A2), "Bea", "P2", "Act-Pastdue"),
     UploadAMAMRow(Padded(A2), "", "P3", "Active"),
     UploadAMAMRow(A1, "Alan", "P4", "Pending"),
     UploadAMAMRow(UndefinedText, "Cy", "P5", "Active")}

UploadCombinedRow(agent, name, policy, status) ==
    [agent_number |-> agent, agent_name |-> name, policy_number |-> policy,
     first_name |-> "Bo", last_name |-> "Ray", phone |-> Undefined, status |-> status,
     effective_date |-> Cell("ymd", 2026, 2, 1)]

UploadCombinedRows ==
    {UploadCombinedRow(A1, "Al", "K1", "In-Force"),
     UploadCombinedRow(Padded(A2), "Bea", "K2", "Lapse-Pending")}

UploadRowsOf(carrier) ==
    IF carrier = "American Amicable" THEN UploadAMAMRows ELSE UploadCombinedRows

\* parseAMAMCSV for a .csv file of either carrier
ParsedUpload(carrier, rows) ==
    IF carrier = "American Amicable" THEN parseAMAMCSV(rows) ELSE rows

AgentNumberOf(row, carrier) ==
    IF carrier = "American Amicable" THEN cleanNumber(row.WritingAgent)
    ELSE trimText(row.agent_number)

AgentNameOf(row, carrier) ==
    IF carrier = "American Amicable" THEN OptionalTrim(row.AgentName)
    ELSE OptionalTrim(row.agent_name)

\* the Map is keyed by `${agentNumber}-${agentName}`; the texts fed in hold no '-'
RECURSIVE extractWritingAgents(_, _)
extractWritingAgents(data, carrier) ==
    IF data = <<>> THEN <<>>
    ELSE LET uniqueAgents == extractWritingAgents(SubSeq(data, 1, Len(data) - 1), carrier)
             row == data[Len(data)]
             agentNumber == AgentNumberOf(row, carrier)
             agentName == AgentNameOf(row, carrier)
         IN  IF /\ agentNumber \notin {UndefinedText, <<>>}
                /\ agentName \notin {Undefined, ""}
                /\ ~\E i \in 1..Len(uniqueAgents) :
                        /\ uniqueAgents[i].number = agentNumber
                        /\ uniqueAgents[i].name = agentName
             THEN Append(uniqueAgents, [number |-> agentNumber, name |-> agentName])
             ELSE uniqueAgents

NoDocument == [present |-> FALSE, rows |-> <<>>]

InitUpload ==
    /\ db = [carrier_documents |-> [c \in UploadCarriers |-> NoDocument],
             writing_agents |-> {},
             agent_assignments |-> {},
             nextId |-> 1]
    /\ req = [n |-> 0, carrier |-> "", rows |-> <<>>]
    /\ response = [status |-> 0, error |-> "none"]
    /\ pc = "documents"
    /\ ui = Idle
    /\ env \in [now : {ScopedNow}, tz : {0}]
    /\ probe = Idle /\ upload = Idle /\ analysis = Idle
    /\ scopedPolicies = Idle /\ results = Idle /\ lapsePolicies = Idle

\* delete().eq('carrier_name', carrierName), which cascades to the
\* agent_assignments of the deleted rows (ON DELETE CASCADE), then insert
ReplaceWritingAgents(carrierName, writingAgents) ==
    LET kept == {w \in db.writing_agents : w.carrier_name # carrierName}
    IN  [db EXCEPT
            !.writing_agents = kept \cup
                {[id |-> db.nextId + i - 1, carrier_name |-> carrierName,
                  agent_number |-> writingAgents[i].number,
                  agent_name |-> writingAgents[i].name] : i \in 1..Len(writingAgents)},
            !.agent_assignments = {a \in @ : a.writing_agent_id \in {w.id : w \in kept}},
            !.nextId = @ + Len(writingAgents)]

\* UNIQUE(agency_id, carrier_name, agent_number) rejects the whole insert
ViolatesUnique(writingAgents) ==
    \E i, j \in 1..Len(writingAgents) :
        i # j /\ writingAgents[i].number = writingAgents[j].number

UploadDocument ==
    /\ pc = "documents"
    /\ req.n < MaxUploads
    /\ \E carrierName \in UploadCarriers :
       \E rows \in SeqsUpTo(UploadRowsOf(carrierName), MaxUploadRows) :
          LET writingAgents == extractWritingAgents(ParsedUpload(carrierName, rows), carrierName)
              stored == [db EXCEPT !.carrier_documents[carrierName] =
                                        [present |-> TRUE, rows |-> rows]]
          IN  /\ req' = [n |-> req.n + 1, carrier |-> carrierName, rows |-> rows]
              /\ IF Len(writingAgents) = 0
                 THEN /\ response' = [status |-> 400, error |-> "No writing agents found"]
                      /\ UNCHANGED db
                 ELSE IF ViolatesUnique(writingAgents)
                 THEN /\ response' = [status |-> 500, error |-> "Failed to save writing agents"]
                      /\ db' = [ReplaceWritingAgents(carrierName, <<>>) EXCEPT
                                   !.carrier_documents = stored.carrier_documents]
                 ELSE /\ response' = [status |-> 200, error |-> "none"]
                      /\ db' = [ReplaceWritingAgents(carrierName, writingAgents) EXCEPT
                                   !.carrier_documents = stored.carrier_documents]
    /\ UNCHANGED <<ui, env, probe, upload, analysis, pc, scopedPolicies, results, lapsePolicies>>

\* POST of the assignment route: the profile's assignments are replaced
AssignWritingAgents ==
    /\ pc = "documents"
    /\ \E profile_id \in Profiles :
       \E writing_agent_ids \in SUBSET {w.id : w \in db.writing_agents} :
          /\ writing_agent_ids # {}
          /\ db' = [db EXCEPT !.agent_assignments =
                       {a \in @ : a.profile_id # profile_id} \cup
                       {[profile_id |-> profile_id, writing_agent_id |-> wa_id] :
                           wa_id \in writing_agent_ids}]
          /\ response' = [status |-> 200, error |-> "none"]
    /\ UNCHANGED <<ui, env, probe, upload, analysis, req, pc, scopedPolicies, results,
                   lapsePolicies>>

NextUpload ==
    \/ UploadDocument
    \/ AssignWritingAgents

SpecUpload == InitUpload /\ [][NextUpload]_vars

\* the (profile, carrier, agent number) links that agent_assignments hold
AssignedNumbers(d) ==
    {[profile_id |-> a.profile_id, carrier_name |-> w.carrier_name,
      agent_number |-> w.agent_number] :
        <<a, w>> \in {x \in d.agent_assignments \X d.writing_agents :
                          x[1].writing_agent_id = x[2].id}}

InNewFile(link) ==
    /\ link.carrier_name = req'.carrier
    /\ \E i \in 1..Len(extractWritingAgents(ParsedUpload(req'.carrier, req'.rows), req'.carrier)) :
          extractWritingAgents(ParsedUpload(req'.carrier, req'.rows), req'.carrier)[i].number
              = link.agent_number

\* C27: a successful re-upload of a carrier's document keeps every
\* assignment of a profile to a writing agent whose carrier and agent number
\* are also in the new file.
C27_ReuploadKeepsAssignments ==
    [][(/\ pc = "documents" /\ req'.n = req.n + 1 /\ response'.status = 200
        /\ db.carrier_documents[req'.carrier].present)
       => \A link \in AssignedNumbers(db) : InNewFile(link) => link \in AssignedNumbers(db')]_vars

\* what the handler does keep: the assignments to the other carriers'
\* writing agents
C27_UploadKeepsOtherCarriersAssignments ==
    [][(pc = "documents" /\ req'.n = req.n + 1)
       => \A link \in AssignedNumbers(db) :
             link.carrier_name # req'.carrier => link \in AssignedNumbers(db')]_vars

(***************************************************************************)
(* Specification SpecOwnerView: the agency owner uploads documents and     *)
(* opens the dashboard in the 'My Data' view; handleAnalyze                *)
(* (src/app/hierarchy/page.tsx) posts the stored files with the filter     *)
(* fields to the scoped handler (src/unnamed/part_007).                    *)
(***************************************************************************)
\* doc.carrier_name.toLowerCase().replace(' ', '-')
carrierKey(carrier_name) ==
    IF carrier_name = "American Amicable" THEN "american-amicable" ELSE "combined"

\* the rows of a select, here in the order of their ids
RECURSIVE RowsById(_)
RowsById(rows) ==
    IF rows = {} THEN <<>>
    ELSE LET first == CHOOSE r \in rows : \A q \in rows : r.id <= q.id
         IN  <<first>> \o RowsById(rows \ {first})

InitOwnerView ==
    /\ InitUpload

\* handleAnalyze with profile.role = 'agency_owner' and dataView = 'my'
handleAnalyzeOwner ==
    /\ pc = "documents"
    /\ LET writingAgents == RowsById(db.writing_agents)
           documents == {c \in UploadCarriers : db.carrier_documents[c].present}
       IN  IF documents = {}
           THEN /\ response' = [status |-> 0, error |-> "No carrier documents uploaded yet"]
                /\ UNCHANGED <<req, pc>>
           ELSE \E downloaded \in SUBSET documents :
                   /\ req' = [files |->
                                 [key \in FormKeys |->
                                     IF \E c \in downloaded : carrierKey(c) = key
                                     THEN LET c == CHOOSE c \in downloaded : carrierKey(c) = key
                                          IN  [present |-> TRUE,
                                               rows |-> db.carrier_documents[c].rows]
                                     ELSE NoFile],
                              filter_mode |-> "my",
                              writing_agent_numbers |->
                                 JSONField([i \in 1..Len(writingAgents) |->
                                               writingAgents[i].agent_number])]
                   /\ pc' = "american-amicable"
                   /\ response' = Idle
    /\ UNCHANGED <<db, ui, env, probe, upload, analysis, scopedPolicies, results, lapsePolicies>>

NextOwnerView ==
    \/ UploadDocument
    \/ handleAnalyzeOwner
    \/ ProcessAmericanAmicable
    \/ ProcessCombined
    \/ ProcessAflac
    \/ ProcessAetna
    \/ RespondNoFiles
    \/ Respond

SpecOwnerView == InitOwnerView /\ [][NextOwnerView]_vars

AnalysedAll(key) ==
    req.files[key].present =>
        \E i \in 1..Len(response.results) :
            /\ response.results[i].carrier = ResultName(key)
            /\ response.results[i].totalPolicies = Len(req.files[key].rows)

\* C26: the analysis the agency owner gets in the 'My Data' view covers
\* every policy row of every carrier file sent: no row is dropped because of
\* its writing agent, whatever writing agents the upload extracted.
C26_OwnerSeesAllPolicies ==
    (pc = "done" /\ response.status = 200) =>
        /\ AnalysedAll("american-amicable")
        /\ AnalysedAll("combined")
        /\ req.files["american-amicable"].present =>
              scopedPolicies = parseAMAMCSV(req.files["american-amicable"].rows)

\* the owner's American Amicable analysis covers exactly the rows whose
\* cleaned writing-agent number was extracted at some upload
C26_OwnerSeesExtractedAgentsOnly ==
    (pc = "done" /\ response.status = 200 /\ req.files["american-amicable"].present) =>
        \E i \in 1..Len(response.results) :
            /\ response.results[i].carrier = "American Amicable"
            /\ response.results[i].totalPolicies =
                  IF Filtering THEN Len(Permitted("american-amicable"))
                  ELSE Len(req.files["american-amicable"].rows)

(***************************************************************************)
(* Specification SpecDashboard: the dashboard (src/app/hierarchy/page.tsx) *)
(* of a signed-in profile.  Each change of dataView starts handleAnalyze,  *)
(* which captures the view, awaits its queries and the analysis, and then  *)
(* sets the displayed state.  req counts the calls in flight per captured  *)
(* view; upload counts the toggles.                                        *)
(***************************************************************************)
MaxToggles == 3

Me == "agent1"
Downline == "agent2"
DataViews == {"my", "downline"}

DashboardWritingAgents ==
    {[id |-> 1, carrier_name |-> "American Amicable", agent_number |-> A1, agent_name |-> "Al"],
     [id |-> 2, carrier_name |-> "American Amicable", agent_number |-> A2, agent_name |-> "Bea"]}

NoResults == [kind |-> "null", writing_agent_numbers |-> <<>>]

InitDashboard ==
    /\ \E role \in {"agency_owner", "agent"},
          assignments \in SUBSET ({Me, Downline} \X {1, 2}) :
          db = [profile |-> [id |-> Me, role |-> role],
                writing_agents |-> DashboardWritingAgents,
                agent_assignments |->
                    {[profile_id |-> x[1], writing_agent_id |-> x[2]] : x \in assignments}]
    /\ ui = [profile |-> FALSE, dataView |-> "my", analyzing |-> FALSE, error |-> "null",
             results |-> NoResults, lapsePolicies |-> NoResults]
    /\ req = [view \in DataViews |-> 0]
    /\ upload = [toggles |-> 0]
    /\ pc = "dashboard"
    /\ env \in [now : {ScopedNow}, tz : {0}]
    /\ probe = Idle /\ analysis = Idle /\ response = Idle
    /\ scopedPolicies = Idle /\ results = Idle /\ lapsePolicies = Idle

\* get_all_downline_ids(profile.id)
DownlineIds == {Downline}

\* the writing agents whose numbers handleAnalyze sends for a view
writingAgentsOf(view) ==
    LET profileIds == IF view = "my" THEN {db.profile.id} ELSE DownlineIds
        writingAgentIds ==
            {a.writing_agent_id : a \in {b \in db.agent_assignments : b.profile_id \in profileIds}}
    IN  IF db.profile.role = "agency_owner" /\ view = "my"
        THEN RowsById(db.writing_agents)
        ELSE RowsById({w \in db.writing_agents : w.id \in writingAgentIds})

\* what one call of handleAnalyze leaves on the screen for the view it captured
Analysed(view) ==
    LET writingAgents == writingAgentsOf(view)
        numbers == [i \in 1..Len(writingAgents) |-> writingAgents[i].agent_number]
        computed == [kind |-> "analysis", writing_agent_numbers |-> numbers]
    IN  IF Len(writingAgents) = 0 /\ db.profile.role # "agency_owner"
        THEN [error |-> "No writing agents assigned to your account yet",
              results |-> NoResults, lapsePolicies |-> NoResults]
        ELSE [error |-> "null", results |-> computed, lapsePolicies |-> computed]

\* setAnalyzing(true); setError(null); the call then awaits
StartAnalyze(view) ==
    /\ req' = [req EXCEPT ![view] = @ + 1]
    /\ ui' = [ui EXCEPT !.profile = TRUE, !.dataView = view, !.analyzing = TRUE,
                        !.error = "null"]

\* checkAuth loads the profile; the effect on [dataView, profile] runs
LoadProfile ==
    /\ pc = "dashboard" /\ ~ui.profile
    /\ StartAnalyze(ui.dataView)
    /\ UNCHANGED <<db, env, probe, upload, analysis, pc, scopedPolicies, results,
                   lapsePolicies, response>>

\* a click on the other view's button: setDataView, and the effect runs
ToggleDataView ==
    /\ pc = "dashboard" /\ ui.profile
    /\ upload.toggles < MaxToggles
    /\ \E view \in DataViews \ {ui.dataView} : StartAnalyze(view)
    /\ upload' = [toggles |-> upload.toggles + 1]
    /\ UNCHANGED <<db, env, probe, analysis, pc, scopedPolicies, results, lapsePolicies,
                   response>>

\* a call in flight gets its answers and sets the state; finally setAnalyzing(false)
FinishAnalyze ==
    /\ pc = "dashboard"
    /\ \E view \in DataViews :
          /\ req[view] > 0
          /\ req' = [req EXCEPT ![view] = @ - 1]
          /\ LET shown == Analysed(view)
             IN  ui' = [ui EXCEPT !.analyzing = FALSE,
                                  !.error = IF shown.error = "null" THEN @ ELSE shown.error,
                                  !.results = shown.results,
                                  !.lapsePolicies = shown.lapsePolicies]
    /\ UNCHANGED <<db, env, probe, upload, analysis, pc, scopedPolicies, results,
                   lapsePolicies, response>>

NextDashboard ==
    \/ LoadProfile
    \/ ToggleDataView
    \/ FinishAnalyze

SpecDashboard == InitDashboard /\ [][NextDashboard]_vars

NoneInFlight == \A view \in DataViews : req[view] = 0

\* C28: whenever no analysis call is in flight, the results and the lapse
\* policies on the screen are those computed for the selected data view,
\* also after the view was toggled while an earlier call was running.
C28_DisplayedResultsMatchSelectedView ==
    (pc = "dashboard" /\ ui.profile /\ NoneInFlight) =>
        /\ ui.results = Analysed(ui.dataView).results
        /\ ui.lapsePolicies = Analysed(ui.dataView).lapsePolicies

\* a call that finishes while the view it captured is still selected does
\* leave that view's results on the screen
C28_MatchesWhenCapturedViewStillSelected ==
    [][\A view \in DataViews :
          (pc = "dashboard" /\ req'[view] = req[view] - 1 /\ view = ui.dataView)
          => ui'.results = Analysed(ui'.dataView).results]_vars

====
